---- MODULE Spec2Model ----
(***************************************************************************)
(* Session registry, auth gate and conversation memory of the Streamlit    *)
(* chat application (src/app.py, src/src/chatapp/chat.py).                 *)
(*                                                                         *)
(* app.py is a Streamlit script: every interaction of a browser session    *)
(* executes the whole file top to bottom in a fresh __main__ namespace,    *)
(* with st.session_state and the URL query parameters as the only state    *)
(* that belongs to the browser session.  chat.py is an imported module:    *)
(* its globals are created once per process and shared by all sessions.    *)
(* Time is counted in minutes; the clock moves between any two steps.       *)
(***************************************************************************)
EXTENDS Integers, Sequences, FiniteSets, TLC

\* ---------------------------------------------------------------- bounds
Browsers == {"b1", "b2", "b3"}
MaxTime == 3
IdsPerBrowser == 2
MaxTurns == 2
MaxHistory == 4
ReasonLen == 2

\* ------------------------------------------------------------- constants
MaxSessions == 2
SessionMinutes == 1
MinTtlMinutes == 5
SharedPassword == "secret"
Passwords == {"secret", "wrong"}
Modes == {"qa", "normal"}

None == 0
Index(b) == CASE b = "b1" -> 0 [] b = "b2" -> 1 [] OTHER -> 2
\* The ids uuid.uuid4() can give to the sessions of browser b.
Pool(b) == {Index(b) * IdsPerBrowser + k : k \in 1..IdsPerBrowser}
Ids == UNION {Pool(b) : b \in Browsers}
NoSig == <<>>
EmptyDict == <<>>

Max(a, b) == IF a > b THEN a ELSE b

\* ------------------------------------------------------------ dictionary
Put(d, k, v) == [x \in (DOMAIN d) \cup {k} |-> IF x = k THEN v ELSE d[x]]
Pop(d, k) == [x \in (DOMAIN d) \ {k} |-> d[x]]

\* hmac.new(key, msg, sha256).hexdigest(): a digest determined by key and message
Hmac(key, msg) == <<key, msg>>

\* -------------------------------------------------------------- state
VARIABLES
  now,              \* wall clock (time.time()), minutes
  session_state,    \* st.session_state of each browser session
  query_params,     \* the query string of the URL of each browser session
  st_query_params,  \* the attribute query_params of the streamlit module, one
                    \* for the process: what the build provides, or the dict
                    \* a login or a logout bound to it (lines 217, 239)
  _ACTIVE_SESSIONS, \* the registry dict bound in the namespace of each script run
  memory,           \* chat.py: qa_memory / normal_memory contents (process-wide)
  llm,              \* chat.py: the llm global, "none" until _init_llm succeeded
  chat_globals,     \* chat.py: for each mode the memory object the module
                    \* global refers to, the memory object its conversation
                    \* chain is bound to (0: None), and the turns of a
                    \* chain's memory object the module no longer refers to
  secrets,          \* where the deployment keeps each required setting
                    \* (st.secrets, the environment)
  client_outcome,   \* what AzureChatOpenAI(...) does with the deployment's
                    \* configuration (chat.py lines 77-85): it returns the
                    \* client or raises
  pc,               \* position of each browser session's script run
  req,              \* the run in progress: its widget values, the tab the
                    \* user was on when the widget fired, what the completion
                    \* service does with the run's call, the run's gate
                    \* result, and its locals in chat.py: the chain it invokes
                    \* with the history that chain read, the memory object
                    \* it is making a chain with
  page,             \* what the last finished run left on screen
  notice            \* the st.success / st.error / st.warning of the last run

vars == <<now, session_state, query_params, st_query_params, _ACTIVE_SESSIONS,
          memory, llm, chat_globals, secrets, client_outcome, pc, req, page, notice>>

EmptyState ==
  [auth_ok |-> FALSE, session_id |-> None, login_ts |-> None,
   chat_mode |-> "none", qa_messages |-> <<>>, normal_messages |-> <<>>]

NoParams == [auth |-> None, sig |-> NoSig]
\* A call of chain.invoke (chat.py line 214) returns, or raises with a failure
\* reason; a text is a sequence of phrases.
Returned == [raises |-> FALSE, msg |-> <<>>]
Raised(msg) == [raises |-> TRUE, msg |-> msg]
\* chain.invoke raises an AttributeError or a TypeError, and the chain.predict
\* of line 217 that follows it does "second"
RaisedTypeError(msg, second) == [raises |-> TRUE, msg |-> msg, predict |-> second]

\* No memory object: the value None of a chat.py global or local.
NoObject == 0

NoReq ==
  [click |-> "none", password |-> "", prompt |-> <<>>, tab |-> "none",
   outcome |-> Returned, authed |-> FALSE, chain |-> NoObject, history |-> <<>>,
   built |-> NoObject, tok |-> None]

Turn(role, content) == [role |-> role, content |-> content]

\* ------------------------------------------------- registry of a script run
\* Streamlit executes each run of app.py in a namespace of its own: line 81
\* binds _ACTIVE_SESSIONS to a new dict in the namespace of that run.
RunNamespace(b) == b

Registry(b) == _ACTIVE_SESSIONS[RunNamespace(b)]
WithRegistry(b, reg) == [_ACTIVE_SESSIONS EXCEPT ![RunNamespace(b)] = reg]

\* ---------------------------------------------------------- app.py helpers
PruneTtl == Max(MinTtlMinutes, SessionMinutes)

PruneSessions(reg, t) ==
  [sid \in {s \in DOMAIN reg : ~((t - reg[s]) > PruneTtl)} |-> reg[sid]]

EnsureSessionId(ss, fresh) ==
  IF ss.session_id = None THEN [ss EXCEPT !.session_id = fresh] ELSE ss

TouchSession_NoRegister(ss, reg, t, fresh) ==
  [ss |-> EnsureSessionId(ss, fresh), reg |-> PruneSessions(reg, t)]
TouchSession(ss, reg, t, fresh) ==
  LET ss2 == EnsureSessionId(ss, fresh)
  IN [ss |-> ss2, reg |-> Put(PruneSessions(reg, t), ss2.session_id, t)]

RemoveSession_Noop(ss, reg) == reg
RemoveSession(ss, reg) ==
  IF ss.session_id = None THEN reg ELSE Pop(reg, ss.session_id)

CanLoginWithConcurrencyLimit_CountOnly(ss, reg, t) ==
  [ok |-> Cardinality(DOMAIN PruneSessions(reg, t)) < MaxSessions,
   reg |-> PruneSessions(reg, t)]
CanLoginWithConcurrencyLimit(ss, reg, t) ==
  LET pruned == PruneSessions(reg, t)
  IN [ok |-> IF ss.session_id /= None /\ ss.session_id \in DOMAIN pruned
             THEN TRUE
             ELSE Cardinality(DOMAIN pruned) < MaxSessions,
      reg |-> pruned]

SessionExpired_Never(login_ts, t) == FALSE
SessionExpired(login_ts, t) ==
  login_ts /= None /\ (t - login_ts) > SessionMinutes

IsAuthenticated(ss, reg, t) ==
  IF ss.auth_ok
  THEN IF SessionExpired(ss.login_ts, t)
       THEN [ok |-> FALSE, ss |-> EmptyState, reg |-> RemoveSession(ss, reg),
             expired |-> TRUE]
       ELSE [ok |-> TRUE, ss |-> ss,
             reg |-> IF ss.session_id /= None /\ ss.session_id \notin DOMAIN reg
                     THEN Put(reg, ss.session_id, t)
                     ELSE reg,
             expired |-> FALSE]
  ELSE [ok |-> FALSE, ss |-> ss, reg |-> reg, expired |-> FALSE]

RestoreAccepts_Unsigned(tok, sig, reg) == tok \in DOMAIN reg
RestoreAccepts_AnyRegistry(tok, sig, reg) == Hmac(SharedPassword, tok) = sig
RestoreAccepts(tok, sig, reg) ==
  Hmac(SharedPassword, tok) = sig /\ tok \in DOMAIN reg


\* line 203, left operand: password == auth_cfg["shared_password"]
PasswordMatches_Any(password) == TRUE
PasswordMatches(password) == password = SharedPassword

\* line 226: the st.error of a failed login; the else branch of line 203 is the
\* same whichever operand of the "and" was false
LoginErrorNotice(password_ok) == "login_error"

\* lines 228-230: if not is_authenticated(): render_login(); st.stop()
GateTarget_NoStop(ok) == "main"
GateTarget(ok) == IF ok THEN "main" ELSE "login"

\* ---------------------------------------------------------- chat.py helpers
\* A text is a sequence of phrases.
NoText == <<>>
Prompts == {<<"p1">>}

\* What the completion service returns for an input.
Reply(prompt) == <<"reply to">> \o prompt

\* What the completion service does with the calls made to it.
Outcomes == {Returned, Raised(<<"timeout">>)}

\* The keywords tested at lines 222-230 and 88-90 that occur in a phrase of a
\* failure reason once it is lower-cased (str(e).lower(), lines 221 and 87).
KeywordsIn(phrase) ==
  CASE phrase = "Connection error." -> {"connection", "connect"}
    [] phrase = "could not connect" -> {"connect"}
    [] phrase = "timeout" -> {"timeout"}
    [] phrase = "Request timed out." -> {}
    [] phrase = "Authentication failed" -> {"authentication"}
    [] phrase = "Unauthorized" -> {"unauthorized"}
    [] phrase = "invalid API key" -> {"api key", "key"}
    [] phrase = "endpoint" -> {"endpoint"}
    [] phrase = "URL" -> {"url"}
    [] phrase = "Rate limit reached" -> {"rate limit"}
    [] phrase = "quota" -> {"quota"}
    [] phrase = "model" -> {"model"}
    [] phrase = "not found" -> {"not found"}
    [] phrase = "deployment" -> {"deployment"}
    [] phrase = "internal error" -> {}
    [] OTHER -> {}

\* "kw" in error_lower
Mentions(msg, kw) == \E i \in DOMAIN msg : kw \in KeywordsIn(msg[i])

ConnectionErrorText == <<"Connection Error">>
AuthenticationErrorText == <<"Authentication Error">>
ConfigurationErrorText == <<"Configuration Error">>
RateLimitText == <<"Rate Limit Exceeded">>
ModelErrorText == <<"Model Error">>
GenericErrorText == <<"Error">>

ClassifyError_RateLimitFirst(msg) ==
  IF Mentions(msg, "rate limit") \/ Mentions(msg, "quota")
  THEN RateLimitText
  ELSE IF Mentions(msg, "connection") \/ Mentions(msg, "timeout") \/ Mentions(msg, "connect")
  THEN ConnectionErrorText
  ELSE IF Mentions(msg, "authentication") \/ Mentions(msg, "unauthorized")
            \/ Mentions(msg, "api key")
  THEN AuthenticationErrorText
  ELSE IF Mentions(msg, "endpoint") \/ Mentions(msg, "url")
  THEN ConfigurationErrorText
  ELSE IF Mentions(msg, "model")
            /\ (Mentions(msg, "not found") \/ Mentions(msg, "deployment"))
  THEN ModelErrorText
  ELSE GenericErrorText

\* get_chat_response, lines 220-234: the message returned for a failure reason
ClassifyError(msg) ==
  IF Mentions(msg, "connection") \/ Mentions(msg, "timeout") \/ Mentions(msg, "connect")
  THEN ConnectionErrorText
  ELSE IF Mentions(msg, "authentication") \/ Mentions(msg, "unauthorized")
            \/ Mentions(msg, "api key")
  THEN AuthenticationErrorText
  ELSE IF Mentions(msg, "endpoint") \/ Mentions(msg, "url")
  THEN ConfigurationErrorText
  ELSE IF Mentions(msg, "rate limit") \/ Mentions(msg, "quota")
  THEN RateLimitText
  ELSE IF Mentions(msg, "model")
            /\ (Mentions(msg, "not found") \/ Mentions(msg, "deployment"))
  THEN ModelErrorText
  ELSE GenericErrorText

\* What the construction of the client does on a deployment: it returns, or
\* raises an exception whose text mentions the endpoint, the key, or neither.
ClientOutcomes ==
  {Returned, Raised(<<"endpoint">>), Raised(<<"invalid API key">>),
   Raised(<<"internal error">>)}

\* _init_llm, lines 86-93: the ConnectionError raised when the client cannot be
\* built, chosen by the text of the exception (str(e).lower())
InitErrorText(msg) ==
  IF Mentions(msg, "endpoint")
  THEN <<"Failed to initialize AI client. Please check your endpoint configuration (Secrets/.env).">>
  ELSE IF Mentions(msg, "api key") \/ Mentions(msg, "key")
  THEN <<"Failed to initialize AI client. Please check your API key (Secrets/.env).">>
  ELSE <<"Failed to initialize AI client. Please verify your configuration (Secrets/.env).">>

\* The settings both modules require, and where a deployment can keep one: at
\* the top level of the Streamlit secrets or in the environment ("flat"), in
\* a table of the secrets that the build gives as a dict ("nested") or as a
\* Mapping that is not a dict, like the AttrDict of st.secrets ("table"), as
\* the value of env.example ("placeholder"), or nowhere ("absent").
Settings == {"AZURE_OPENAI_API_KEY", "AZURE_OPENAI_ENDPOINT"}
FlatSecrets == [k \in Settings |-> "flat"]

\* app.py get_cfg, lines 18-33: the top level of st.secrets, then its tables
\* that are dicts (line 27, isinstance(v, dict)), then the environment
GetCfg(s, key) == IF s[key] \in {"absent", "table"} THEN "none" ELSE s[key]

\* chat.py _get_cfg, lines 36-47: the copy of the top level of st.secrets
\* made at import, then the environment
ChatGetCfg(s, key) == IF s[key] \in {"flat", "placeholder"} THEN s[key] ELSE "none"

\* check_env_variables, lines 261-273: the settings reported missing
CheckEnvVariables(s) ==
  {k \in Settings : GetCfg(s, k) = "none" \/ GetCfg(s, k) = "placeholder"}

\* chat.py lines 66-74: the setting _init_llm does not find, the key first
NotFound(s) ==
  IF ChatGetCfg(s, "AZURE_OPENAI_API_KEY") = "none" THEN "AZURE_OPENAI_API_KEY"
  ELSE IF ChatGetCfg(s, "AZURE_OPENAI_ENDPOINT") = "none" THEN "AZURE_OPENAI_ENDPOINT"
  ELSE "none"

\* chat.py lines 72 and 74: the text of the ValueError
NotFoundText(key) == <<key, "not found. Set it in Streamlit Secrets or .env.">>

\* The settings of a deployment and what the construction of its client
\* does: every setting where both modules find it with each outcome of the
\* construction, or one setting kept elsewhere.
Deployments ==
  {[secrets |-> FlatSecrets, client |-> o] : o \in ClientOutcomes}
    \cup {[secrets |-> [FlatSecrets EXCEPT ![k] = p], client |-> Returned] :
            k \in Settings, p \in {"nested", "table", "placeholder", "absent"}}

\* ConversationChain.invoke with ConversationBufferMemory: the memory is read
\* for the prompt, and the exchange is saved to it once the model returned.
SaveContext_Never(mem, prompt, response) == mem
SaveContext(mem, prompt, response) ==
  mem \o <<Turn("user", prompt), Turn("assistant", response)>>

\* lines 213-218: what the try block ends with; after an AttributeError or a
\* TypeError of chain.invoke it is what chain.predict does
FinalOutcome(outcome) ==
  IF outcome.raises /\ "predict" \in DOMAIN outcome THEN outcome.predict ELSE outcome

\* lines 50-56 and 185-202: the objects the module globals refer to. A memory
\* object is named by the number of objects made for its mode so far.
NoObjects == [m \in Modes |-> [memory |-> NoObject, chain |-> NoObject, detached |-> <<>>]]
CreatedObjects == [m \in Modes |-> [memory |-> 1, chain |-> 1, detached |-> <<>>]]

\* get_chat_response, lines 211-234, once _init_llm returned: "chain" is the
\* memory object of the mode's chain (NoObject: the chain global is None) and
\* "mem" the turns of that object. invoke and predict of a None chain raise
\* AttributeError, which lines 219-234 turn into the generic message; a
\* failure of the chain call is returned as a message, the memory untouched.
GetChatResponse(chain, mem, prompt, outcome) ==
  LET final == FinalOutcome(outcome)
  IN IF chain = NoObject
     THEN [text |-> GenericErrorText, mem |-> mem]
     ELSE IF ~final.raises
     THEN [text |-> Reply(prompt), mem |-> SaveContext(mem, prompt, Reply(prompt))]
     ELSE [text |-> ClassifyError(final.msg), mem |-> mem]

\* clear_memory, lines 240-256: the mode's memory is emptied and its chain
\* rebuilt around it.
ClearMemory_Noop(mem, mode) == mem
ClearMemory(mem, mode) == [mem EXCEPT ![mode] = <<>>]

\* ------------------------------------------------------------ environment
\* What the streamlit module has for query_params when the process starts: an
\* object tied to the session's URL that an assignment writes through
\* ("session"), the QueryParamsProxy property of Streamlit 1.30 and later
\* ("proxy", not a dict), or nothing ("absent": the read of line 87 raises and
\* line 89 reads the URL).
Builds == {[kind |-> k, value |-> [auth |-> None, sig |-> NoSig]] :
             k \in {"session", "proxy", "absent"}}

\* lines 86-98: the token and signature the restore reads
QueryParams(b) ==
  CASE st_query_params.kind = "dict" -> st_query_params.value
    [] st_query_params.kind = "proxy" -> [auth |-> None, sig |-> NoSig]
    [] OTHER -> query_params[b]

\* lines 217-220 and 239-243: st.query_params = {...} binds the attribute of
\* the streamlit module to the dict, for every run of the process; no
\* exception comes of it, so the except branch is not taken
SetQueryParams(b, p) ==
  IF st_query_params.kind = "session"
  THEN /\ query_params' = [query_params EXCEPT ![b] = p]
       /\ UNCHANGED st_query_params
  ELSE /\ st_query_params' = [kind |-> "dict", value |-> p]
       /\ UNCHANGED query_params

\* The process as it starts: no session, no run, the chat module not
\* initialized; the deployment has its required settings or lacks one, and
\* its client can or cannot be built.
Init ==
  /\ now = 1
  /\ session_state = [b \in Browsers |-> EmptyState]
  /\ query_params = [b \in Browsers |-> NoParams]
  /\ st_query_params \in Builds
  /\ _ACTIVE_SESSIONS = [b \in Browsers |-> EmptyDict]
  /\ memory = [m \in Modes |-> <<>>]
  /\ llm = "none"
  /\ chat_globals = NoObjects
  /\ \E d \in Deployments : secrets = d.secrets /\ client_outcome = d.client
  /\ pc = [b \in Browsers |-> "idle"]
  /\ req = [b \in Browsers |-> NoReq]
  /\ page = [b \in Browsers |-> "new"]
  /\ notice = [b \in Browsers |-> "none"]

\* The id of a session that was logged in before the browsers of the
\* scenarios opened the page.
EarlierId == Cardinality(Browsers) * IdsPerBrowser + 1

\* The streamlit attribute once an earlier session has logged in: where the
\* assignment of line 217 writes to the URL it is as the build provides it;
\* elsewhere it is the dict of that login, or the empty dict of its logout.
Served ==
  {[kind |-> "session", value |-> NoParams],
   [kind |-> "dict", value |-> NoParams],
   [kind |-> "dict",
    value |-> [auth |-> EarlierId, sig |-> Hmac(SharedPassword, EarlierId)]]}

\* A process whose chat module an earlier session, which logged in and has
\* left or logged out, has initialized.
InitServing ==
  /\ now = 1
  /\ session_state = [b \in Browsers |-> EmptyState]
  /\ query_params = [b \in Browsers |-> NoParams]
  /\ st_query_params \in Served
  /\ _ACTIVE_SESSIONS = [b \in Browsers |-> EmptyDict]
  /\ memory = [m \in Modes |-> <<>>]
  /\ llm = "ready"
  /\ chat_globals = CreatedObjects
  /\ secrets = FlatSecrets
  /\ client_outcome = Returned
  /\ pc = [b \in Browsers |-> "idle"]
  /\ req = [b \in Browsers |-> NoReq]
  /\ page = [b \in Browsers |-> "new"]
  /\ notice = [b \in Browsers |-> "none"]

Tick ==
  /\ now < MaxTime
  /\ now' = now + 1
  /\ UNCHANGED <<session_state, query_params, st_query_params, _ACTIVE_SESSIONS, memory, llm, chat_globals, secrets, client_outcome, pc, req, page, notice>>

\* The browsers of the URL token scenarios; the ids of the URLs a browser is
\* pointed at are those the sessions of the first one can get.
TokenBrowsers == {"b1", "b2"}
TokenIds == Pool("b1")

\* The URL of a reload: the one the browser is on.
OwnUrl(b) == {query_params[b]}

\* URLs a browser can be pointed at: any id with a signature made with the
\* shared or with another key, for that or for another id.
AnyUrl(b) ==
  {query_params[b], NoParams}
    \cup {[auth |-> i, sig |-> Hmac(k, j)] :
            i \in TokenIds, k \in Passwords, j \in TokenIds}

\* A page load: a new Streamlit session (empty st.session_state) on a URL.
OpenPage(b, urls) ==
  /\ pc[b] = "idle"
  /\ page[b] /= "new"
  /\ \E u \in urls : query_params' = [query_params EXCEPT ![b] = u]
  /\ session_state' = [session_state EXCEPT ![b] = EmptyState]
  /\ page' = [page EXCEPT ![b] = "new"]
  /\ notice' = [notice EXCEPT ![b] = "none"]
  /\ UNCHANGED <<now, st_query_params, _ACTIVE_SESSIONS, memory, llm, chat_globals, secrets, client_outcome, pc, req>>

\* Pointing a browser that shows no page yet at a URL.
Navigate(b, urls) ==
  /\ pc[b] = "idle"
  /\ page[b] = "new"
  /\ \E u \in urls \ {query_params[b]} :
       query_params' = [query_params EXCEPT ![b] = u]
  /\ UNCHANGED <<now, session_state, st_query_params, _ACTIVE_SESSIONS, memory, llm, chat_globals, secrets, client_outcome, pc, req, page, notice>>

\* Ids held by a session, a URL or a registry.
UsedIds ==
  {session_state[b].session_id : b \in Browsers}
    \cup {query_params[b].auth : b \in Browsers}
    \cup {st_query_params.value.auth}
    \cup UNION {DOMAIN _ACTIVE_SESSIONS[n] : n \in Browsers}

\* str(uuid.uuid4()): an id that nothing holds
Uuid4(b) == CHOOSE i \in Pool(b) \ UsedIds : \A j \in Pool(b) \ UsedIds : i <= j

AuthClicks == {"none", "login", "reset", "logout"}
ChatClicks == {"clear", "qa_send", "normal_send"}

\* The widgets a page offers.
Clicks(b) ==
  CASE page[b] = "login" -> {"login", "reset"}
    [] page[b] = "main" -> {"none", "logout", "clear", "qa_send", "normal_send"}
    [] page[b] = "error" -> {"none", "logout", "clear"}
    [] page[b] = "config" -> {"none", "logout"}
    [] OTHER -> {"none"}

\* The tab the user is on when a widget fires: st.tabs (line 649) switches
\* tabs in the browser; each chat input sits in its tab, the Clear button in
\* the sidebar beside both.
Tabs(c) ==
  CASE c = "qa_send" -> {"qa"}
    [] c = "normal_send" -> {"normal"}
    [] c = "clear" -> Modes
    [] OTHER -> {"none"}

Messages(ss, m) == IF m = "qa" THEN ss.qa_messages ELSE ss.normal_messages

CanSendWithin(b, m, cap) ==
  /\ Len(memory[m]) + 2 <= cap
  /\ Len(Messages(session_state[b], m)) + 2 <= cap

CanSend(b, m) == CanSendWithin(b, m, MaxTurns)

\* Ends the run: st.stop(), st.rerun() or the end of the script.
EndRun(b, pg) ==
  /\ pc' = [pc EXCEPT ![b] = "idle"]
  /\ req' = [req EXCEPT ![b] = NoReq]
  /\ page' = [page EXCEPT ![b] = pg]

\* ------------------------------------------------------------ app.py script
\* A rerun of browser session b with the widget values it carries: the script
\* starts, lines 79-81 create the registry and its lock, lines 83-115 restore
\* the session from the URL token.
\* The chat inputs carry a text of "prompts", while the histories hold fewer
\* than "cap" turns, and the completion service does one of "outcomes" with
\* the call of a send.
StartRunWith(b, clicks, prompts, cap, outcomes) ==
  /\ pc[b] = "idle"
  /\ \E c \in Clicks(b) \cap clicks :
       /\ c = "qa_send" => CanSendWithin(b, "qa", cap)
       /\ c = "normal_send" => CanSendWithin(b, "normal", cap)
       /\ \E pw \in (IF c = "login" THEN Passwords ELSE {""}) :
          \E p \in (IF c \in {"qa_send", "normal_send"} THEN prompts ELSE {NoText}) :
          \E tab \in Tabs(c) :
          \E o \in (IF c \in {"qa_send", "normal_send"} THEN outcomes ELSE {Returned}) :
            req' = [req EXCEPT ![b] =
                      [NoReq EXCEPT !.click = c, !.password = pw, !.prompt = p,
                                    !.tab = tab, !.outcome = o]]
  /\ LET reg0 == EmptyDict
         tok == QueryParams(b).auth
         sig == QueryParams(b).sig
     IN IF tok /= None /\ sig /= NoSig /\ RestoreAccepts(tok, sig, reg0)
        THEN /\ session_state' = [session_state EXCEPT ![b] =
                  [@ EXCEPT !.session_id = tok, !.auth_ok = TRUE, !.login_ts = now]]
             /\ _ACTIVE_SESSIONS' = WithRegistry(b, Put(reg0, tok, now))
        ELSE /\ _ACTIVE_SESSIONS' = WithRegistry(b, reg0)
             /\ UNCHANGED session_state
  /\ pc' = [pc EXCEPT ![b] = "gate"]
  /\ notice' = [notice EXCEPT ![b] = "none"]
  /\ UNCHANGED <<now, query_params, st_query_params, memory, llm, chat_globals, secrets, client_outcome, page>>

StartRun(b, clicks) == StartRunWith(b, clicks, Prompts, MaxTurns, Outcomes)

\* line 228: if not is_authenticated()
AuthGate(b) ==
  /\ pc[b] = "gate"
  /\ LET r == IsAuthenticated(session_state[b], Registry(b), now)
     IN /\ session_state' = [session_state EXCEPT ![b] = r.ss]
        /\ _ACTIVE_SESSIONS' = WithRegistry(b, r.reg)
        /\ req' = [req EXCEPT ![b].authed = r.ok]
        /\ pc' = [pc EXCEPT ![b] = GateTarget(r.ok)]
        /\ notice' = [notice EXCEPT ![b] = IF r.expired THEN "expired" ELSE @]
  /\ UNCHANGED <<now, query_params, st_query_params, memory, llm, chat_globals, secrets, client_outcome, page>>

\* render_login up to the password comparison, then st.stop() unless it matched
RenderLogin(b) ==
  /\ pc[b] = "login"
  /\ _ACTIVE_SESSIONS' =
       IF req[b].click = "reset" THEN WithRegistry(b, EmptyDict) ELSE _ACTIVE_SESSIONS
  /\ IF req[b].click = "login" /\ PasswordMatches(req[b].password)
     THEN /\ pc' = [pc EXCEPT ![b] = "can_login"]
          /\ UNCHANGED <<req, page, notice>>
     ELSE /\ EndRun(b, "login")
          /\ notice' = [notice EXCEPT ![b] =
               CASE req[b].click = "login" -> LoginErrorNotice(FALSE)
                 [] req[b].click = "reset" -> "reset_ok"
                 [] OTHER -> @]
  /\ UNCHANGED <<now, session_state, query_params, st_query_params, memory, llm, chat_globals, secrets, client_outcome>>

\* line 203, right operand: _can_login_with_concurrency_limit(), by a run at
\* position "at"
CanLoginAt(b, at) ==
  /\ pc[b] = at
  /\ LET r == CanLoginWithConcurrencyLimit(session_state[b], Registry(b), now)
     IN /\ _ACTIVE_SESSIONS' = WithRegistry(b, r.reg)
        /\ IF r.ok
           THEN /\ pc' = [pc EXCEPT ![b] = "admitted"]
                /\ UNCHANGED <<req, page, notice>>
           ELSE /\ EndRun(b, "login")
                /\ notice' = [notice EXCEPT ![b] = LoginErrorNotice(TRUE)]
  /\ UNCHANGED <<now, session_state, query_params, st_query_params, memory, llm, chat_globals, secrets, client_outcome>>

CanLogin(b) == CanLoginAt(b, "can_login")

\* lines 204-224: mark the session authenticated, register it, issue the
\* token, by a run at position "at"
LoginRegisterAt(b, at) ==
  /\ pc[b] = at
  /\ session_state[b].session_id = None => Pool(b) \ UsedIds /= {}
  /\ LET ss1 == [session_state[b] EXCEPT !.auth_ok = TRUE, !.login_ts = now]
         r == TouchSession(ss1, Registry(b), now, Uuid4(b))
     IN /\ session_state' = [session_state EXCEPT ![b] = r.ss]
        /\ _ACTIVE_SESSIONS' = WithRegistry(b, r.reg)
        /\ SetQueryParams(b, [auth |-> r.ss.session_id,
                               sig |-> Hmac(SharedPassword, r.ss.session_id)])
  /\ notice' = [notice EXCEPT ![b] = "login_ok"]
  /\ EndRun(b, "rerun")
  /\ UNCHANGED <<now, memory, llm, chat_globals, secrets, client_outcome>>

LoginRegister(b) == LoginRegisterAt(b, "admitted")

\* lines 232-247: the logout button was clicked
Logout(b) ==
  /\ pc[b] = "main"
  /\ req[b].click = "logout"
  /\ _ACTIVE_SESSIONS' = WithRegistry(b, RemoveSession(session_state[b], Registry(b)))
  /\ SetQueryParams(b, NoParams)
  /\ session_state' = [session_state EXCEPT ![b] = EmptyState]
  /\ EndRun(b, "rerun")
  /\ UNCHANGED <<now, memory, llm, chat_globals, secrets, client_outcome, notice>>

\* lines 249-254 (logout not clicked): if is_authenticated(): _touch_session()
ActivityTouch(b) ==
  /\ pc[b] = "main"
  /\ req[b].click /= "logout"
  /\ LET r == IsAuthenticated(session_state[b], Registry(b), now)
         t == TouchSession(r.ss, r.reg, now, Uuid4(b))
     IN /\ session_state' = [session_state EXCEPT ![b] = IF r.ok THEN t.ss ELSE r.ss]
        /\ _ACTIVE_SESSIONS' = WithRegistry(b, IF r.ok THEN t.reg ELSE r.reg)
        /\ notice' = [notice EXCEPT ![b] = IF r.expired THEN "expired" ELSE @]
  /\ pc' = [pc EXCEPT ![b] = "chat"]
  /\ UNCHANGED <<now, query_params, st_query_params, memory, llm, chat_globals, secrets, client_outcome, req, page>>

\* lines 664-669: the session's chat fields are created when missing
ChatDefaults(ss) == IF ss.chat_mode = "none" THEN [ss EXCEPT !.chat_mode = "qa"] ELSE ss

\* lines 680-688, in st.session_state
ClearMessages(ss, mode) ==
  IF mode = "qa" THEN [ss EXCEPT !.qa_messages = <<>>]
  ELSE [ss EXCEPT !.normal_messages = <<>>]

\* lines 808 and 873 (986 and 1051): st.session_state.<mode>_messages.append
AppendTurn_Dedup(h, t) == IF \E i \in DOMAIN h : h[i] = t THEN h ELSE Append(h, t)
AppendTurn(h, t) == Append(h, t)

\* line 876 (1054): f"Sorry, I encountered an error: {str(e)}"
SorryText(msg) == <<"Sorry, I encountered an error:">> \o msg

WithMessages(ss, m, h) ==
  IF m = "qa" THEN [ss EXCEPT !.qa_messages = h] ELSE [ss EXCEPT !.normal_messages = h]

\* lines 636-669 and the first statement of the run's first call of chat.py
\* (clear_memory at line 683 when Clear was clicked, get_memory_messages at
\* line 696 otherwise): with a required setting missing the run shows the
\* error and stops at line 661; otherwise the chat fields are created and
\* _init_llm tests llm (chat.py lines 62-64)
ChatSetup(b) ==
  /\ pc[b] = "chat"
  /\ IF CheckEnvVariables(secrets) /= {}
     THEN /\ notice' = [notice EXCEPT ![b] = "config_error"]
          /\ EndRun(b, "config")
          /\ UNCHANGED session_state
     ELSE /\ session_state' = [session_state EXCEPT ![b] = ChatDefaults(@)]
          /\ pc' = [pc EXCEPT ![b] = IF llm /= "none" THEN "call" ELSE "client"]
          /\ UNCHANGED <<req, page, notice>>
  /\ UNCHANGED <<now, query_params, st_query_params, _ACTIVE_SESSIONS, memory, llm, chat_globals, secrets, client_outcome>>

\* chat.py lines 66-93: what leaves _init_llm when it fails, the ValueError of
\* a setting not found or the ConnectionError of a client that cannot be
\* built; "none" when the client is built
InitLlmError(s, outcome) ==
  IF NotFound(s) /= "none" THEN NotFoundText(NotFound(s))
  ELSE IF outcome.raises THEN InitErrorText(outcome.msg)
  ELSE <<"none">>

\* chat.py lines 66-93: the configuration is read and the client built and
\* assigned to llm, or the exception leaves _init_llm
InitClient(b) ==
  /\ pc[b] = "client"
  /\ LET raises == InitLlmError(secrets, client_outcome) /= <<"none">>
     IN /\ llm' = IF raises THEN llm ELSE "ready"
        /\ pc' = [pc EXCEPT ![b] = IF raises THEN "call" ELSE "qa_memory"]
  /\ UNCHANGED <<now, session_state, query_params, st_query_params, _ACTIVE_SESSIONS, memory, chat_globals, secrets, client_outcome, req, page, notice>>

MemoryPc(m) == IF m = "qa" THEN "qa_memory" ELSE "normal_memory"
ChainPc(m) == IF m = "qa" THEN "qa_chain" ELSE "normal_chain"

\* chat.py line 185 (186): qa_memory (normal_memory) =
\* ConversationBufferMemory(...), a new empty object; a chain made earlier
\* stays bound to the object it was made with
InitMemory(b, m) ==
  /\ pc[b] = MemoryPc(m)
  /\ memory' = [memory EXCEPT ![m] = <<>>]
  /\ chat_globals' = [chat_globals EXCEPT ![m] =
       [memory |-> @.memory + 1,
        chain |-> @.chain,
        detached |-> IF @.chain = @.memory /\ @.chain /= NoObject
                     THEN memory[m] ELSE @.detached]]
  /\ pc' = [pc EXCEPT ![b] = IF m = "qa" THEN MemoryPc("normal") ELSE ChainPc("qa")]
  /\ UNCHANGED <<now, session_state, query_params, st_query_params, _ACTIVE_SESSIONS, llm, secrets, client_outcome, req, page, notice>>

\* ConversationChain(llm=llm, memory=<mode>_memory, ...), chat.py lines 190-195
\* and 197-202 in _init_llm and 243-248 and 251-256 in clear_memory: the
\* arguments are read from the module globals and the chain is made with the
\* memory object the global refers to at that moment ("built", with the
\* turns it holds)
BuildChain(b, m) ==
  [req EXCEPT ![b].built = chat_globals[m].memory, ![b].history = memory[m]]

\* qa_conversation_chain (normal_conversation_chain) = <the chain made>: the
\* global is bound to a chain of the memory object "built"; when the memory
\* global has been rebound since, the chain's object is one the module no
\* longer refers to
BindChain(g, built, turns) ==
  [memory |-> g.memory,
   chain |-> built,
   detached |-> IF built = g.memory THEN <<>>
                ELSE IF built = g.chain THEN g.detached
                ELSE turns]

\* chat.py lines 190-195 (197-202), the call of the constructor
InitChain(b, m) ==
  /\ pc[b] = ChainPc(m)
  /\ req' = BuildChain(b, m)
  /\ pc' = [pc EXCEPT ![b] = IF m = "qa" THEN "qa_chain_assign" ELSE "normal_chain_assign"]
  /\ UNCHANGED <<now, session_state, query_params, st_query_params, _ACTIVE_SESSIONS, memory, llm, chat_globals, secrets, client_outcome, page, notice>>

\* chat.py line 190 (197), the assignment of the chain global
InitChainAssign(b, m) ==
  /\ pc[b] = (IF m = "qa" THEN "qa_chain_assign" ELSE "normal_chain_assign")
  /\ chat_globals' = [chat_globals EXCEPT ![m] =
       BindChain(@, req[b].built, req[b].history)]
  /\ req' = [req EXCEPT ![b].built = NoObject, ![b].history = <<>>]
  /\ pc' = [pc EXCEPT ![b] = IF m = "qa" THEN ChainPc("normal") ELSE "call"]
  /\ UNCHANGED <<now, session_state, query_params, st_query_params, _ACTIVE_SESSIONS, memory, llm, secrets, client_outcome, page, notice>>

\* lines 680-683 and chat.py lines 239-242 (250), _init_llm behind it: Clear
\* Chat History clicked; the memory object the global refers to is emptied in
\* place; nothing catches the exception of _init_llm or the AttributeError of
\* a None memory
ClearChat(b) ==
  /\ pc[b] = "call"
  /\ req[b].click = "clear"
  /\ LET current_mode == session_state[b].chat_mode
     IN IF llm = "none" \/ chat_globals[current_mode].memory = NoObject
        THEN /\ notice' = [notice EXCEPT ![b] = "exception"]
             /\ EndRun(b, "error")
             /\ UNCHANGED memory
        ELSE /\ memory' = ClearMemory(memory, current_mode)
             /\ pc' = [pc EXCEPT ![b] = "clear_build"]
             /\ UNCHANGED <<req, page, notice>>
  /\ UNCHANGED <<now, session_state, query_params, st_query_params, _ACTIVE_SESSIONS, llm, chat_globals, secrets, client_outcome>>

\* chat.py lines 243-248 (251-256), the call of the constructor
ClearBuild(b) ==
  /\ pc[b] = "clear_build"
  /\ req' = BuildChain(b, session_state[b].chat_mode)
  /\ pc' = [pc EXCEPT ![b] = "clear_assign"]
  /\ UNCHANGED <<now, session_state, query_params, st_query_params, _ACTIVE_SESSIONS, memory, llm, chat_globals, secrets, client_outcome, page, notice>>

\* chat.py line 243 (251), the assignment of the chain global, and lines
\* 684-688: the mode's messages are emptied and the script reruns
ClearAssign(b) ==
  /\ pc[b] = "clear_assign"
  /\ LET current_mode == session_state[b].chat_mode
     IN /\ chat_globals' = [chat_globals EXCEPT ![current_mode] =
             BindChain(@, req[b].built, req[b].history)]
        /\ session_state' = [session_state EXCEPT ![b] =
             ClearMessages(@, current_mode)]
  /\ notice' = [notice EXCEPT ![b] = "cleared"]
  /\ EndRun(b, "rerun")
  /\ UNCHANGED <<now, query_params, st_query_params, _ACTIVE_SESSIONS, memory, llm, secrets, client_outcome>>

\* The turns held by the memory object "chain" of mode m, which is the one
\* the memory global refers to, the one the chain global is bound to, or an
\* object no global refers to any more, holding "turns".
ChainMemory(m, chain, turns) ==
  IF chain = chat_globals[m].memory THEN memory[m]
  ELSE IF chain = chat_globals[m].chain THEN chat_globals[m].detached
  ELSE turns

\* lines 693-812 (-990) and chat.py lines 208-214 with a chat input submitted,
\* the sidebar's _init_llm behind it (its exception swallowed at line 699):
\* the tab whose input fired appends the user turn and calls
\* get_chat_response, which runs _init_llm, takes the mode's chain and invokes
\* it; the chain reads its memory for the prompt ("history") and the thread
\* waits for the model. When _init_llm raises, the handler's except records
\* the text (lines 875-881) and the script runs to its end.
CallModel(b) ==
  /\ pc[b] = "call"
  /\ req[b].click \in {"qa_send", "normal_send"}
  /\ LET m == IF req[b].click = "qa_send" THEN "qa" ELSE "normal"
         g == chat_globals[m]
         h == AppendTurn(Messages(session_state[b], m), Turn("user", req[b].prompt))
         failed == AppendTurn(h, Turn("assistant", SorryText(InitLlmError(secrets, client_outcome))))
     IN IF llm = "none"
        THEN /\ session_state' = [session_state EXCEPT ![b] =
                  [WithMessages(@, m, failed) EXCEPT !.chat_mode = "normal"]]
             /\ notice' = [notice EXCEPT ![b] = "exception"]
             /\ EndRun(b, "main")
        ELSE /\ session_state' = [session_state EXCEPT ![b] =
                  [WithMessages(@, m, h) EXCEPT !.chat_mode = m]]
             /\ req' = [req EXCEPT ![b].chain = g.chain,
                                    ![b].history = ChainMemory(m, g.chain, <<>>)]
             /\ pc' = [pc EXCEPT ![b] = "calling"]
             /\ UNCHANGED <<page, notice>>
  /\ UNCHANGED <<now, query_params, st_query_params, _ACTIVE_SESSIONS, memory, llm, chat_globals, secrets, client_outcome>>

\* chat.py lines 215-234 and lines 813-873 (991-1051): the try block of
\* get_chat_response ends; the chain the thread holds saves the exchange to
\* the memory object it was made with (the one clear_memory empties in place
\* and hands to the next chain), the handler appends the assistant turn and
\* the script runs to its end (line 885 sets chat_mode)
CallEnds(b) ==
  /\ LET m == req[b].tab
         g == chat_globals[m]
         chain == req[b].chain
         mem == ChainMemory(m, chain, req[b].history)
         r == GetChatResponse(chain, mem, req[b].prompt, req[b].outcome)
         h == AppendTurn(Messages(session_state[b], m), Turn("assistant", r.text))
     IN /\ memory' = IF chain = g.memory THEN [memory EXCEPT ![m] = r.mem] ELSE memory
        /\ chat_globals' =
             IF chain /= g.memory /\ chain = g.chain
             THEN [chat_globals EXCEPT ![m].detached = r.mem]
             ELSE chat_globals
        /\ session_state' = [session_state EXCEPT ![b] =
             [WithMessages(@, m, h) EXCEPT !.chat_mode = "normal"]]
  /\ EndRun(b, "main")
  /\ UNCHANGED <<now, query_params, st_query_params, _ACTIVE_SESSIONS, llm, secrets, client_outcome, notice>>

\* chat.py lines 215-218: chain.invoke returns or raises. After an
\* AttributeError or a TypeError of a chain's invoke, chain.predict is called:
\* the chain reads its memory again and the thread waits for the model a
\* second time. (The AttributeError of a None chain is raised by line 218 as
\* well, and ends the try block.)
CallReturns(b) ==
  /\ pc[b] = "calling"
  /\ IF req[b].chain /= NoObject /\ "predict" \in DOMAIN req[b].outcome
     THEN /\ req' = [req EXCEPT ![b].history =
                  ChainMemory(req[b].tab, req[b].chain, @)]
          /\ pc' = [pc EXCEPT ![b] = "predicting"]
          /\ UNCHANGED <<now, session_state, query_params, st_query_params, _ACTIVE_SESSIONS, memory, llm, chat_globals, secrets, client_outcome, page, notice>>
     ELSE CallEnds(b)

\* chat.py lines 218-219: chain.predict returns or raises
PredictReturns(b) ==
  /\ pc[b] = "predicting"
  /\ CallEnds(b)

\* lines 693-1064 with no chat widget fired, _init_llm behind it: the sidebar
\* reads the memory (get_memory_messages; the AttributeError of a None memory,
\* like the exception of _init_llm, is swallowed at line 699) and both tabs
\* are rendered, each assigning chat_mode
RenderMain(b) ==
  /\ pc[b] = "call"
  /\ req[b].click \notin ChatClicks
  /\ session_state' = [session_state EXCEPT ![b].chat_mode = "normal"]
  /\ EndRun(b, "main")
  /\ UNCHANGED <<now, query_params, st_query_params, _ACTIVE_SESSIONS, memory, llm, chat_globals, secrets, client_outcome, notice>>


\* ---------------------------------------------------------- specifications
\* A session as its login and first render leave it.
LoggedIn(b) ==
  [EmptyState EXCEPT !.auth_ok = TRUE, !.session_id = Index(b) * IdsPerBrowser + 1,
                     !.login_ts = 1, !.chat_mode = "normal"]

\* The token and signature a login issues for a session.
Token(ss) == [auth |-> ss.session_id, sig |-> Hmac(SharedPassword, ss.session_id)]

\* The streamlit attribute and the URLs once the sessions of S have logged in
\* and no session has logged out: the URLs carry the tokens where the
\* assignment of line 217 writes to the URL, and the attribute is the dict of
\* the last login where it does not.
PlatformAfter(S) ==
  {[st |-> [kind |-> "session", value |-> NoParams],
    url |-> [b \in Browsers |-> IF b \in S THEN Token(LoggedIn(b)) ELSE NoParams]]}
    \cup {[st |-> [kind |-> "dict", value |-> Token(LoggedIn(b))],
           url |-> [c \in Browsers |-> NoParams]] : b \in S}

\* Logins, requests, logouts, expiries and resets of two browsers beside the
\* requests of a third one, whose session logged in before them.
Resident == "b3"

UserClicks(b) == IF b = Resident THEN {"none"} ELSE AuthClicks

InitResident ==
  /\ now = 1
  /\ session_state = [b \in Browsers |->
       IF b = Resident THEN LoggedIn(b) ELSE EmptyState]
  /\ \E p \in PlatformAfter({Resident}) :
       /\ st_query_params = p.st
       /\ query_params = p.url
  /\ _ACTIVE_SESSIONS = [b \in Browsers |->
       IF b = Resident THEN Put(EmptyDict, LoggedIn(b).session_id, 1) ELSE EmptyDict]
  /\ memory = [m \in Modes |-> <<>>]
  /\ llm = "ready"
  /\ chat_globals = CreatedObjects
  /\ secrets = FlatSecrets
  /\ client_outcome = Returned
  /\ pc = [b \in Browsers |-> "idle"]
  /\ req = [b \in Browsers |-> NoReq]
  /\ page = [b \in Browsers |-> IF b = Resident THEN "main" ELSE "new"]
  /\ notice = [b \in Browsers |-> "none"]

Next ==
  \/ Tick
  \/ \E b \in Browsers : StartRun(b, UserClicks(b))
  \/ \E b \in Browsers : AuthGate(b)
  \/ \E b \in Browsers : RenderLogin(b)
  \/ \E b \in Browsers : CanLogin(b)
  \/ \E b \in Browsers : LoginRegister(b)
  \/ \E b \in Browsers : Logout(b)
  \/ \E b \in Browsers : ActivityTouch(b)
  \/ \E b \in Browsers : ChatSetup(b)
  \/ \E b \in Browsers : RenderMain(b)

Spec == InitResident /\ [][Next]_vars

\* Two browsers, one of which can be pointed at any URL token.

NextToken ==
  \/ Tick
  \/ \E b \in TokenBrowsers : OpenPage(b, OwnUrl(b))
  \/ Navigate("b2", AnyUrl("b2"))
  \/ \E b \in TokenBrowsers : StartRun(b, AuthClicks)
  \/ \E b \in TokenBrowsers : AuthGate(b)
  \/ \E b \in TokenBrowsers : RenderLogin(b)
  \/ \E b \in TokenBrowsers : CanLogin(b)
  \/ \E b \in TokenBrowsers : LoginRegister(b)
  \/ \E b \in TokenBrowsers : Logout(b)
  \/ \E b \in TokenBrowsers : ActivityTouch(b)
  \/ \E b \in TokenBrowsers : ChatSetup(b)
  \/ \E b \in TokenBrowsers : RenderMain(b)

SpecToken == InitServing /\ [][NextToken]_vars

\* Two browsers that log in: the user of the first one sends and clears, the
\* user of the second one clears.
ChatBrowsers == {"b1", "b2"}
ChatUserClicks(b) ==
  IF b = "b1" THEN {"none", "login"} \cup ChatClicks ELSE {"none", "login", "clear"}

NextChat ==
  \/ Tick
  \/ \E b \in ChatBrowsers : StartRun(b, ChatUserClicks(b))
  \/ \E b \in ChatBrowsers : AuthGate(b)
  \/ \E b \in ChatBrowsers : RenderLogin(b)
  \/ \E b \in ChatBrowsers : CanLogin(b)
  \/ \E b \in ChatBrowsers : LoginRegister(b)
  \/ \E b \in ChatBrowsers : ActivityTouch(b)
  \/ \E b \in ChatBrowsers : ChatSetup(b)
  \/ \E b \in ChatBrowsers : ClearChat(b)
  \/ \E b \in ChatBrowsers : ClearBuild(b)
  \/ \E b \in ChatBrowsers : ClearAssign(b)
  \/ \E b \in ChatBrowsers : CallModel(b)
  \/ \E b \in ChatBrowsers : CallReturns(b)
  \/ \E b \in ChatBrowsers : RenderMain(b)

SpecChat == InitServing /\ [][NextChat]_vars

\* The seven "with _ACTIVE_SESSIONS_LOCK:" blocks as steps of their own: a run
\* waits before the block, enters it when the lock object of its namespace
\* (line 80) is free, runs the block's statements and leaves it. The block of
\* lines 112-113 is behind the test of line 106, which no run passes.
LockBrowsers == {"b1", "b2"}

\* The positions before the blocks: lines 139 and 170 inside the
\* is_authenticated of line 228 ("gate") and of line 251 ("main"), line 139
\* from the logout, line 195, line 145, and line 131 from the login and from
\* the activity touch.
WaitPcs ==
  {"gate_remove", "gate_register", "main_remove", "main_register",
   "logout_remove", "reset", "can_login", "touch", "main_touch"}

Locked(p) ==
  CASE p = "gate_remove" -> "gate_remove_locked"
    [] p = "gate_register" -> "gate_register_locked"
    [] p = "main_remove" -> "main_remove_locked"
    [] p = "main_register" -> "main_register_locked"
    [] p = "logout_remove" -> "logout_remove_locked"
    [] p = "reset" -> "reset_locked"
    [] p = "can_login" -> "can_login_locked"
    [] p = "touch" -> "touch_locked"
    [] OTHER -> "main_touch_locked"

\* The run of b is inside a block: at its first statement or, in the block
\* of _touch_session, at the second one.
Holds(b) ==
  pc[b] \in {Locked(p) : p \in WaitPcs} \cup {"touch_pruned", "main_touch_pruned"}

\* The lock object bound in the namespace of b's run is held.
LockHeld(b) ==
  \E c \in Browsers : RunNamespace(c) = RunNamespace(b) /\ Holds(c)

\* "with _ACTIVE_SESSIONS_LOCK:" is entered
Acquire(b) ==
  /\ pc[b] \in WaitPcs
  /\ ~LockHeld(b)
  /\ pc' = [pc EXCEPT ![b] = Locked(@)]
  /\ UNCHANGED <<now, session_state, query_params, st_query_params, _ACTIVE_SESSIONS, memory, llm, chat_globals, secrets, client_outcome, req, page, notice>>

\* is_authenticated, lines 152-158 and 166-168, called at line 228 or, the
\* logout button not clicked, at line 251: the tests of auth_ok and of the
\* login time, up to the block the call enters (after line 251 that of
\* _touch_session, whose _ensure_session_id gives an id to a session without)
IsAuthenticatedTest(b) ==
  /\ pc[b] \in {"gate", "main"}
  /\ pc[b] = "main" => req[b].click /= "logout"
  /\ LET ss == session_state[b]
         at == pc[b]
         expired == SessionExpired(ss.login_ts, now)
     IN /\ pc' = [pc EXCEPT ![b] =
             CASE ~ss.auth_ok -> IF at = "gate" THEN GateTarget(FALSE) ELSE "chat"
               [] expired /\ ss.session_id /= None ->
                    IF at = "gate" THEN "gate_remove" ELSE "main_remove"
               [] expired -> IF at = "gate" THEN "gate_removed" ELSE "main_removed"
               [] ss.session_id /= None ->
                    IF at = "gate" THEN "gate_register" ELSE "main_register"
               [] OTHER -> IF at = "gate" THEN GateTarget(TRUE) ELSE "main_touch"]
        /\ req' = [req EXCEPT ![b].authed =
             IF at = "gate" THEN ss.auth_ok /\ ~expired /\ ss.session_id = None ELSE @]
        /\ session_state' =
             IF at = "main" /\ ss.auth_ok /\ ~expired /\ ss.session_id = None
             THEN [session_state EXCEPT ![b] = EnsureSessionId(@, Uuid4(b))]
             ELSE session_state
  /\ UNCHANGED <<now, query_params, st_query_params, _ACTIVE_SESSIONS, memory, llm, chat_globals, secrets, client_outcome, page, notice>>

\* line 140, inside the block: _ACTIVE_SESSIONS.pop(sid, None)
RemoveSessionLocked(b) ==
  /\ pc[b] \in {"gate_remove_locked", "main_remove_locked", "logout_remove_locked"}
  /\ _ACTIVE_SESSIONS' = WithRegistry(b, RemoveSession(session_state[b], Registry(b)))
  /\ pc' = [pc EXCEPT ![b] =
       CASE @ = "gate_remove_locked" -> "gate_removed"
         [] @ = "main_remove_locked" -> "main_removed"
         [] OTHER -> "logout_removed"]
  /\ UNCHANGED <<now, session_state, query_params, st_query_params, memory, llm, chat_globals, secrets, client_outcome, req, page, notice>>

\* lines 163-165: the session found expired is cleared and warned, and
\* is_authenticated returns False: to the login form from line 228, on to the
\* chat section from line 251
SessionCleared(b) ==
  /\ pc[b] \in {"gate_removed", "main_removed"}
  /\ session_state' = [session_state EXCEPT ![b] = EmptyState]
  /\ notice' = [notice EXCEPT ![b] = "expired"]
  /\ pc' = [pc EXCEPT ![b] = IF @ = "gate_removed" THEN GateTarget(FALSE) ELSE "chat"]
  /\ UNCHANGED <<now, query_params, st_query_params, _ACTIVE_SESSIONS, memory, llm, chat_globals, secrets, client_outcome, req, page>>

\* lines 171-172, inside the block: the id is put back when it is missing;
\* is_authenticated then returns True, and after line 251 _touch_session
\* starts (the session has its id, line 125)
RegisterLocked(b) ==
  /\ pc[b] \in {"gate_register_locked", "main_register_locked"}
  /\ LET sid == session_state[b].session_id
     IN _ACTIVE_SESSIONS' = WithRegistry(b,
          IF sid \notin DOMAIN Registry(b) THEN Put(Registry(b), sid, now)
          ELSE Registry(b))
  /\ pc' = [pc EXCEPT ![b] =
       IF @ = "gate_register_locked" THEN GateTarget(TRUE) ELSE "main_touch"]
  /\ req' = [req EXCEPT ![b].authed = IF pc[b] = "gate_register_locked" THEN TRUE ELSE @]
  /\ UNCHANGED <<now, session_state, query_params, st_query_params, memory, llm, chat_globals, secrets, client_outcome, page, notice>>

\* render_login up to the first block: the Reset button (line 193), the Login
\* button with the password comparison of line 203, or neither
LoginForm(b) ==
  /\ pc[b] = "login"
  /\ IF req[b].click = "reset"
     THEN /\ pc' = [pc EXCEPT ![b] = "reset"]
          /\ UNCHANGED <<req, page, notice>>
     ELSE IF req[b].click = "login" /\ PasswordMatches(req[b].password)
     THEN /\ pc' = [pc EXCEPT ![b] = "can_login"]
          /\ UNCHANGED <<req, page, notice>>
     ELSE /\ EndRun(b, "login")
          /\ notice' = [notice EXCEPT ![b] =
               IF req[b].click = "login" THEN LoginErrorNotice(FALSE) ELSE @]
  /\ UNCHANGED <<now, session_state, query_params, st_query_params, _ACTIVE_SESSIONS, memory, llm, chat_globals, secrets, client_outcome>>

\* line 196, inside the block: _ACTIVE_SESSIONS.clear()
ResetLocked(b) ==
  /\ pc[b] = "reset_locked"
  /\ _ACTIVE_SESSIONS' = WithRegistry(b, EmptyDict)
  /\ pc' = [pc EXCEPT ![b] = "reset_done"]
  /\ UNCHANGED <<now, session_state, query_params, st_query_params, memory, llm, chat_globals, secrets, client_outcome, req, page, notice>>

\* line 197 and the st.stop() of line 230
ResetDone(b) ==
  /\ pc[b] = "reset_done"
  /\ notice' = [notice EXCEPT ![b] = "reset_ok"]
  /\ EndRun(b, "login")
  /\ UNCHANGED <<now, session_state, query_params, st_query_params, _ACTIVE_SESSIONS, memory, llm, chat_globals, secrets, client_outcome>>

\* lines 146-149, inside the block: prune, then the session's own entry or
\* the count; a refusal (which takes a registry at the cap) shows the error
\* of lines 225-226 and stops at line 230
CanLoginLocked(b) ==
  /\ pc[b] = "can_login_locked"
  /\ LET r == CanLoginWithConcurrencyLimit(session_state[b], Registry(b), now)
     IN /\ _ACTIVE_SESSIONS' = WithRegistry(b, r.reg)
        /\ IF r.ok
           THEN /\ pc' = [pc EXCEPT ![b] = "admitted"]
                /\ UNCHANGED <<req, page, notice>>
           ELSE /\ EndRun(b, "login")
                /\ notice' = [notice EXCEPT ![b] = LoginErrorNotice(TRUE)]
  /\ UNCHANGED <<now, session_state, query_params, st_query_params, memory, llm, chat_globals, secrets, client_outcome>>


\* lines 204-208 up to the block of _touch_session: auth_ok, login_ts and,
\* by _ensure_session_id (lines 124-127), the session id are written
LoginWrite(b) ==
  /\ pc[b] = "admitted"
  /\ session_state[b].session_id = None => Pool(b) \ UsedIds /= {}
  /\ session_state' = [session_state EXCEPT ![b] =
       EnsureSessionId([@ EXCEPT !.auth_ok = TRUE, !.login_ts = now], Uuid4(b))]
  /\ pc' = [pc EXCEPT ![b] = "touch"]
  /\ UNCHANGED <<now, query_params, st_query_params, _ACTIVE_SESSIONS, memory, llm, chat_globals, secrets, client_outcome, req, page, notice>>


\* line 132, inside the block of _touch_session: _prune_sessions()
TouchPruneLocked(b) ==
  /\ pc[b] \in {"touch_locked", "main_touch_locked"}
  /\ _ACTIVE_SESSIONS' = WithRegistry(b, PruneSessions(Registry(b), now))
  /\ pc' = [pc EXCEPT ![b] = IF @ = "touch_locked" THEN "touch_pruned" ELSE "main_touch_pruned"]
  /\ UNCHANGED <<now, session_state, query_params, st_query_params, memory, llm, chat_globals, secrets, client_outcome, req, page, notice>>

\* line 133, inside the block: _ACTIVE_SESSIONS[sid] = _now(), and the block
\* is left
TouchWriteLocked(b) ==
  /\ pc[b] \in {"touch_pruned", "main_touch_pruned"}
  /\ _ACTIVE_SESSIONS' = WithRegistry(b,
       Put(Registry(b), session_state[b].session_id, now))
  /\ pc' = [pc EXCEPT ![b] = IF @ = "touch_pruned" THEN "touched" ELSE "chat"]
  /\ UNCHANGED <<now, session_state, query_params, st_query_params, memory, llm, chat_globals, secrets, client_outcome, req, page, notice>>

\* lines 209-224: the token is issued, the success shown and the script rerun
LoginFinish(b) ==
  /\ pc[b] = "touched"
  /\ SetQueryParams(b, Token(session_state[b]))
  /\ notice' = [notice EXCEPT ![b] = "login_ok"]
  /\ EndRun(b, "rerun")
  /\ UNCHANGED <<now, session_state, _ACTIVE_SESSIONS, memory, llm, chat_globals, secrets, client_outcome>>

\* lines 234-238: the logout button was clicked; _remove_session reads the id
LogoutStart(b) ==
  /\ pc[b] = "main"
  /\ req[b].click = "logout"
  /\ pc' = [pc EXCEPT ![b] =
       IF session_state[b].session_id /= None THEN "logout_remove" ELSE "logout_removed"]
  /\ UNCHANGED <<now, session_state, query_params, st_query_params, _ACTIVE_SESSIONS, memory, llm, chat_globals, secrets, client_outcome, req, page, notice>>

\* lines 239-247: the token is cleared, the session state cleared, the script
\* rerun
LogoutFinish(b) ==
  /\ pc[b] = "logout_removed"
  /\ SetQueryParams(b, NoParams)
  /\ session_state' = [session_state EXCEPT ![b] = EmptyState]
  /\ EndRun(b, "rerun")
  /\ UNCHANGED <<now, _ACTIVE_SESSIONS, memory, llm, chat_globals, secrets, client_outcome, notice>>

NextLock ==
  \/ Tick
  \/ \E b \in LockBrowsers : StartRun(b, AuthClicks)
  \/ \E b \in LockBrowsers : IsAuthenticatedTest(b)
  \/ \E b \in LockBrowsers : Acquire(b)
  \/ \E b \in LockBrowsers : RemoveSessionLocked(b)
  \/ \E b \in LockBrowsers : SessionCleared(b)
  \/ \E b \in LockBrowsers : RegisterLocked(b)
  \/ \E b \in LockBrowsers : LoginForm(b)
  \/ \E b \in LockBrowsers : ResetLocked(b)
  \/ \E b \in LockBrowsers : ResetDone(b)
  \/ \E b \in LockBrowsers : CanLoginLocked(b)
  \/ \E b \in LockBrowsers : LoginWrite(b)
  \/ \E b \in LockBrowsers : TouchPruneLocked(b)
  \/ \E b \in LockBrowsers : TouchWriteLocked(b)
  \/ \E b \in LockBrowsers : LoginFinish(b)
  \/ \E b \in LockBrowsers : LogoutStart(b)
  \/ \E b \in LockBrowsers : LogoutFinish(b)
  \/ \E b \in LockBrowsers : ChatSetup(b)
  \/ \E b \in LockBrowsers : RenderMain(b)

SpecLock == InitServing /\ [][NextLock]_vars

\* One browser that logs in and out, lets its session expire, and holds
\* conversations of several exchanges, on a deployment whose client can or
\* cannot be built, or that lacks a required setting.
ConvBrowser == "b1"
ConvPrompts == {<<"p1">>, <<"p2">>}
ConvClicks == {"none", "login", "logout"} \cup ChatClicks


NextConv ==
  \/ Tick
  \/ StartRunWith(ConvBrowser, ConvClicks, ConvPrompts, MaxHistory, Outcomes)
  \/ AuthGate(ConvBrowser)
  \/ RenderLogin(ConvBrowser)
  \/ CanLogin(ConvBrowser)
  \/ LoginRegister(ConvBrowser)
  \/ Logout(ConvBrowser)
  \/ ActivityTouch(ConvBrowser)
  \/ ChatSetup(ConvBrowser)
  \/ InitClient(ConvBrowser)
  \/ \E m \in Modes : InitMemory(ConvBrowser, m)
  \/ \E m \in Modes : InitChain(ConvBrowser, m)
  \/ \E m \in Modes : InitChainAssign(ConvBrowser, m)
  \/ ClearChat(ConvBrowser)
  \/ ClearBuild(ConvBrowser)
  \/ ClearAssign(ConvBrowser)
  \/ CallModel(ConvBrowser)
  \/ CallReturns(ConvBrowser)
  \/ RenderMain(ConvBrowser)

SpecConv == Init /\ [][NextConv]_vars

\* get_chat_response applied to every failure reason: the run of a logged-in
\* session has reached the chat input that fired, and the call it makes
\* returns or raises with a reason of up to ReasonLen phrases.
Phrases ==
  {"Connection error.", "could not connect", "timeout", "Request timed out.",
   "Authentication failed", "Unauthorized", "invalid API key", "endpoint", "URL",
   "Rate limit reached", "quota", "model", "not found", "deployment",
   "internal error"}
Reasons == UNION {[1..n -> Phrases] : n \in 0..ReasonLen}
ShortReasons == {r \in Reasons : Len(r) <= 1}
ClassifyOutcomes ==
  {Returned} \cup {Raised(r) : r \in Reasons}
    \cup {RaisedTypeError(r, second) :
            r \in ShortReasons, second \in {Returned} \cup {Raised(q) : q \in ShortReasons}}
ClassifyId == CHOOSE i \in Pool(ConvBrowser) : \A j \in Pool(ConvBrowser) : i <= j

ClassifyRequests ==
  UNION {{[NoReq EXCEPT !.click = c, !.prompt = p, !.tab = t, !.outcome = o,
                         !.authed = TRUE] :
            p \in Prompts, t \in Tabs(c), o \in ClassifyOutcomes} :
           c \in {"qa_send", "normal_send"}}

InitClassify ==
  /\ now = 1
  /\ session_state = [[b \in Browsers |-> EmptyState] EXCEPT ![ConvBrowser] =
       [EmptyState EXCEPT !.auth_ok = TRUE, !.session_id = ClassifyId,
                          !.login_ts = 1, !.chat_mode = "normal"]]
  /\ \E p \in PlatformAfter({ConvBrowser}) :
       /\ st_query_params = p.st
       /\ query_params = p.url
  /\ _ACTIVE_SESSIONS = [[b \in Browsers |-> EmptyDict] EXCEPT ![ConvBrowser] =
       Put(EmptyDict, ClassifyId, 1)]
  /\ memory = [m \in Modes |-> <<>>]
  /\ llm = "ready"
  /\ chat_globals = CreatedObjects
  /\ secrets = FlatSecrets
  /\ client_outcome = Returned
  /\ pc = [[b \in Browsers |-> "idle"] EXCEPT ![ConvBrowser] = "chat"]
  /\ req \in {[[b \in Browsers |-> NoReq] EXCEPT ![ConvBrowser] = r] :
                r \in ClassifyRequests}
  /\ page = [[b \in Browsers |-> "new"] EXCEPT ![ConvBrowser] = "main"]
  /\ notice = [b \in Browsers |-> "none"]

NextClassify ==
  \/ ChatSetup(ConvBrowser)
  \/ CallModel(ConvBrowser)
  \/ CallReturns(ConvBrowser)
  \/ PredictReturns(ConvBrowser)

SpecClassify == InitClassify /\ [][NextClassify]_vars

\* The registry functions (lines 117-176) and the handlers that call them,
\* applied to every registry and session of a bounded set: the run of browser
\* b1 goes through its authentication check, the login form, the logout or
\* the activity touch with _ACTIVE_SESSIONS holding fresh, expired and
\* prunable entries of its own and of other ids. These are arguments of the
\* functions: the script itself hands them the dict that line 81 has just
\* created, and gives a session its id together with auth_ok.
OpsBrowser == "b1"
\* ids of b1's sessions (one of its pool is left for uuid4) and of another browser's
OpsIds == (Pool(OpsBrowser) \ {IdsPerBrowser}) \cup Pool("b2")
OpsNow == PruneTtl + 2
OpsTimes == {OpsNow, OpsNow - (SessionMinutes + 1), OpsNow - (PruneTtl + 1)}
OpsRegistries == UNION {[S -> OpsTimes] : S \in SUBSET OpsIds}

OpsSessions ==
  {[EmptyState EXCEPT !.session_id = i] : i \in OpsIds \cup {None}}
    \cup {[EmptyState EXCEPT !.auth_ok = TRUE, !.session_id = i, !.login_ts = t] :
            i \in OpsIds, t \in OpsTimes}

OpsRequests ==
  {[NoReq EXCEPT !.click = "login", !.password = pw] : pw \in Passwords}
    \cup {[NoReq EXCEPT !.click = c] : c \in {"none", "reset", "logout"}}

\* The page a request comes from: the login form for its two buttons, the
\* main page for the logout button, the rerun after its login for the next
\* run of a logged-in session, and the first run of a new session.
OpsPage(ss, r) ==
  CASE r.click \in {"login", "reset"} -> "login"
    [] r.click = "logout" -> "main"
    [] ss.auth_ok -> "rerun"
    [] OTHER -> "new"

\* The streamlit attribute and the URL of a session: one that is logged in
\* has its token in the URL where the assignment of line 217 writes to the
\* URL, and in the attribute where it does not; one that is not finds what the
\* process has, which when a main page was rendered is what a login left.
OpsPlatforms(ss, rendered) ==
  IF ss.auth_ok
  THEN {[st |-> [kind |-> "session", value |-> NoParams], url |-> Token(ss)],
        [st |-> [kind |-> "dict", value |-> Token(ss)], url |-> NoParams]}
  ELSE {[st |-> k, url |-> NoParams] : k \in IF rendered THEN Served ELSE Builds}

InitOps ==
  /\ now = OpsNow
  /\ \E ss \in OpsSessions : \E r \in OpsRequests :
       LET rendered == OpsPage(ss, r) = "main" IN
       \E p \in OpsPlatforms(ss, rendered) :
       /\ session_state = [[b \in Browsers |-> EmptyState] EXCEPT ![OpsBrowser] =
            IF rendered /\ ss.auth_ok THEN [ss EXCEPT !.chat_mode = "normal"] ELSE ss]
       /\ st_query_params = p.st
       /\ query_params = [[b \in Browsers |-> NoParams] EXCEPT ![OpsBrowser] = p.url]
       /\ req = [[b \in Browsers |-> NoReq] EXCEPT ![OpsBrowser] = r]
       /\ page = [[b \in Browsers |-> "new"] EXCEPT ![OpsBrowser] = OpsPage(ss, r)]
       /\ llm = IF rendered THEN "ready" ELSE "none"
       /\ chat_globals = IF rendered THEN CreatedObjects ELSE NoObjects
  /\ _ACTIVE_SESSIONS \in {[[b \in Browsers |-> EmptyDict] EXCEPT ![OpsBrowser] = reg] :
                              reg \in OpsRegistries}
  /\ memory = [m \in Modes |-> <<>>]
  /\ secrets = FlatSecrets
  /\ client_outcome = Returned
  /\ pc = [[b \in Browsers |-> "idle"] EXCEPT ![OpsBrowser] = "gate"]
  /\ notice = [b \in Browsers |-> "none"]

NextOps ==
  \/ AuthGate(OpsBrowser)
  \/ RenderLogin(OpsBrowser)
  \/ CanLogin(OpsBrowser)
  \/ LoginRegister(OpsBrowser)
  \/ Logout(OpsBrowser)
  \/ ActivityTouch(OpsBrowser)
  \/ ChatSetup(OpsBrowser)
  \/ InitClient(OpsBrowser)
  \/ \E m \in Modes : InitMemory(OpsBrowser, m)
  \/ \E m \in Modes : InitChain(OpsBrowser, m)
  \/ \E m \in Modes : InitChainAssign(OpsBrowser, m)
  \/ RenderMain(OpsBrowser)

SpecOps == InitOps /\ [][NextOps]_vars

\* One logged-in session that has exchanged turns in the normal mode, and in
\* the qa mode or not, and whose user from then on clicks Clear Chat History
\* or nothing.
InitClear ==
  /\ now = 1
  /\ \E hn \in {<<Turn("user", p), Turn("assistant", Reply(p))>> : p \in Prompts} :
     \E hq \in {<<>>} \cup {<<Turn("user", p), Turn("assistant", Reply(p))>> : p \in Prompts} :
       /\ session_state = [[b \in Browsers |-> EmptyState] EXCEPT ![ConvBrowser] =
            [LoggedIn(ConvBrowser) EXCEPT !.normal_messages = hn, !.qa_messages = hq]]
       /\ memory = [m \in Modes |-> IF m = "normal" THEN hn ELSE hq]
  /\ \E p \in PlatformAfter({ConvBrowser}) :
       /\ st_query_params = p.st
       /\ query_params = p.url
  /\ _ACTIVE_SESSIONS = [[b \in Browsers |-> EmptyDict] EXCEPT ![ConvBrowser] =
       Put(EmptyDict, LoggedIn(ConvBrowser).session_id, 1)]
  /\ llm = "ready"
  /\ chat_globals = CreatedObjects
  /\ secrets = FlatSecrets
  /\ client_outcome = Returned
  /\ pc = [b \in Browsers |-> "idle"]
  /\ req = [b \in Browsers |-> NoReq]
  /\ page = [[b \in Browsers |-> "new"] EXCEPT ![ConvBrowser] = "main"]
  /\ notice = [b \in Browsers |-> "none"]

NextClear ==
  \/ Tick
  \/ StartRun(ConvBrowser, {"none", "clear"})
  \/ AuthGate(ConvBrowser)
  \/ RenderLogin(ConvBrowser)
  \/ ActivityTouch(ConvBrowser)
  \/ ChatSetup(ConvBrowser)
  \/ ClearChat(ConvBrowser)
  \/ ClearBuild(ConvBrowser)
  \/ ClearAssign(ConvBrowser)
  \/ RenderMain(ConvBrowser)

SpecClear == InitClear /\ [][NextClear]_vars

\* ----------------------------------------------------------------- claims
\* The timestamp ts is older than the session TTL.
PastTtl(ts) == ts /= None /\ (now - ts) > SessionMinutes

\* A session that has logged in and is neither logged out nor expired.
Active(b) ==
  /\ session_state[b].auth_ok
  /\ ~PastTtl(session_state[b].login_ts)

ActiveOthers(S) == {c \in Browsers \ S : Active(c)}

\* The session ids registered at one time: those held in the registries of
\* the script runs in progress.
RegisteredIds ==
  UNION {DOMAIN _ACTIVE_SESSIONS[RunNamespace(b)] : b \in {c \in Browsers : pc[c] /= "idle"}}

\* C1: the number of session ids registered at one time never exceeds
\* maxConcurrentSessions, whatever logins, requests, logouts, expiries and
\* resets have happened.
C1_Capacity == Cardinality(RegisteredIds) <= MaxSessions

\* C2: while two distinct sessions are logged in and active, the capacity
\* check of a login with the correct password from a third session fails, so
\* that session is not admitted.
C2_ThirdLoginRejected ==
  [][\A b \in Browsers :
       (/\ pc[b] = "can_login"
        /\ req[b].password = SharedPassword
        /\ Cardinality(ActiveOthers({b})) >= MaxSessions)
       => pc'[b] /= "admitted"]_vars

\* C3: with one session active and another one admitted by the capacity check
\* but not yet registered, the capacity check of a further session fails:
\* two concurrent logins never both get the one free slot.
C3_AtomicAdmission ==
  [][\A a, b \in Browsers :
       (/\ a /= b
        /\ pc[a] = "admitted"
        /\ pc[b] = "can_login"
        /\ Cardinality(ActiveOthers({a, b})) = MaxSessions - 1)
       => pc'[b] /= "admitted"]_vars

\* The step of b is the start of a run (lines 79-115 have executed).
Started(b) == pc[b] = "idle" /\ pc'[b] = "gate"

\* The step of b is its authentication check of line 228.
Gated(b) == pc[b] = "gate" /\ pc'[b] /= "gate"

ValidSig(b) == query_params[b].sig = Hmac(SharedPassword, query_params[b].auth)

\* The run of b reads a token whose signature is not HMAC(shared password, id).
BadSig(b) ==
  /\ QueryParams(b).auth /= None
  /\ QueryParams(b).sig /= Hmac(SharedPassword, QueryParams(b).auth)

\* The step of b is a step of the restore of lines 83-115.
RestoreStep(b) == pc[b] \in {"restore", "restored"} /\ pc'[b] /= pc[b]

\* C4: a request whose URL parameters carry an id and a signature that is not
\* HMAC(shared password, id) never authenticates the session by token
\* restore, whether or not the id is registered: the restore leaves the
\* session and the registry as they were, and the session stays
\* unauthenticated.
C4_SignatureIntegrity ==
  [][\A b \in Browsers :
       BadSig(b)
       => /\ RestoreStep(b)
               => /\ session_state'[b] = session_state[b]
                  /\ Registry(b)' = Registry(b)
                  /\ pc'[b] = "gate"
          /\ ~session_state[b].auth_ok => ~session_state'[b].auth_ok]_vars

\* A run on a registered id with a signature that is present but wrong has
\* ended on the login form, its session not authenticated.
C4_Witness ==
  \E b \in Browsers :
    /\ pc[b] = "idle"
    /\ page[b] = "login"
    /\ BadSig(b)
    /\ QueryParams(b).sig /= NoSig
    /\ QueryParams(b).auth \in DOMAIN Registry(b)
    /\ ~session_state[b].auth_ok

\* The positions of a run in the chat section of the script (lines 636-1064).
ChatPcs ==
  {"chat", "client", "qa_memory", "normal_memory", "qa_chain", "qa_chain_assign",
   "normal_chain", "normal_chain_assign", "call", "calling", "predicting",
   "clear_build", "clear_assign"}

\* C5: the chat section of the script (send, clear, memory read) is entered
\* only by a run whose authentication check passed; the check passes only for
\* a session marked authenticated, and a session is marked authenticated only
\* by a login with the correct password or by a restore from a token with a
\* valid signature.
C5_ChatGated ==
  [][\A b \in Browsers :
       /\ pc'[b] \in {"main"} \cup ChatPcs => req'[b].authed
       /\ (req'[b].authed /\ ~req[b].authed)
            => pc[b] = "gate" /\ session_state[b].auth_ok
       /\ (session_state'[b].auth_ok /\ ~session_state[b].auth_ok)
            => \/ pc[b] = "admitted" /\ req[b].password = SharedPassword
               \/ Started(b) /\ ValidSig(b)]_vars

\* One session is about to send or clear while another session, which gave a
\* wrong password, is held at the login form.
C5_Witness ==
  \E b, c \in Browsers :
    /\ pc[b] = "call"
    /\ req[b].click \in ChatClicks
    /\ req[b].authed
    /\ pc[c] = "idle"
    /\ notice[c] = "login_error"
    /\ ~session_state[c].auth_ok

\* C6: a session whose id is absent from the registry when its request reaches
\* the authentication check is rejected: the check fails and the id is not put
\* back into the registry.
C6_NotRegisteredRejected ==
  [][\A b \in Browsers :
       (/\ Gated(b)
        /\ session_state[b].auth_ok
        /\ session_state[b].session_id /= None
        /\ session_state[b].session_id \notin DOMAIN Registry(b))
       => /\ ~req'[b].authed
          /\ session_state[b].session_id \notin DOMAIN Registry(b)']_vars

\* C7: a request with empty session state whose URL carries the id of a
\* session registered by an earlier login, still registered and not expired,
\* with its correct signature, becomes authenticated by the restore.
C7_ReloadRestores ==
  [][\A b \in Browsers :
       (/\ Started(b)
        /\ session_state[b] = EmptyState
        /\ query_params[b].auth /= None
        /\ ValidSig(b)
        /\ \E n \in Browsers :
             /\ query_params[b].auth \in DOMAIN _ACTIVE_SESSIONS[n]
             /\ now - _ACTIVE_SESSIONS[n][query_params[b].auth] <= SessionMinutes)
       => session_state'[b].auth_ok]_vars

\* A step that is allowed to take sid out of the registry: the logout of its
\* session, the detection of its expiry, a reset, or its age exceeding the TTL.
RemovalStep(n, sid) ==
  \/ \E b \in Browsers :
       /\ session_state[b].session_id = sid
       /\ pc'[b] /= pc[b]
       /\ \/ pc[b] = "main" /\ req[b].click = "logout"
          \/ /\ pc[b] \in {"gate", "main"}
             /\ session_state[b].auth_ok
             /\ PastTtl(session_state[b].login_ts)
  \/ \E b \in Browsers : pc[b] = "login" /\ req[b].click = "reset" /\ pc'[b] /= pc[b]
  \/ (now - _ACTIVE_SESSIONS[n][sid]) > PruneTtl

\* C8: an entry of the registry stays in it from one request to the next until
\* a logout, an expiry detection, a prune of an entry older than the TTL or a
\* reset removes it.
C8_RegistryPersists ==
  [][\A n \in Browsers : \A sid \in DOMAIN _ACTIVE_SESSIONS[n] :
       sid \in DOMAIN _ACTIVE_SESSIONS'[n] \/ RemovalStep(n, sid)]_vars

\* The token of a session whose expiry is observable: its registry entry is
\* older than the session TTL, or the expiry was detected and announced.
TokenExpired(tok) ==
  \E c \in Browsers :
    /\ query_params[c].auth = tok
    /\ \/ /\ tok \in DOMAIN _ACTIVE_SESSIONS[c]
          /\ PastTtl(_ACTIVE_SESSIONS[c][tok])
       \/ notice[c] = "expired"

\* C9: a request presenting the validly signed token of an expired session is
\* never authenticated by the restore.
C9_ExpiredTokenNotReplayed ==
  [][\A b \in Browsers :
       (/\ Started(b)
        /\ ~session_state[b].auth_ok
        /\ query_params[b].auth /= None
        /\ ValidSig(b)
        /\ TokenExpired(query_params[b].auth))
       => ~session_state'[b].auth_ok]_vars

\* A run has started on the validly signed token of a session whose expiry was
\* detected, and its session is not authenticated.
C9_Witness ==
  \E b \in Browsers :
    /\ pc[b] = "gate"
    /\ session_state[b] = EmptyState
    /\ query_params[b].auth /= None
    /\ ValidSig(b)
    /\ \E c \in Browsers \ {b} :
         /\ query_params[c].auth = query_params[b].auth
         /\ notice[c] = "expired"

\* C10: a session whose registry timestamp (the last one written for its id)
\* is older than the session TTL when its request starts has a login timestamp
\* older than the TTL too, and the authentication check of such a session
\* fails: the session is de-authenticated, its id is taken out of the registry
\* and it is sent to the login form. The check of line 251, made by a run
\* that passed the one of line 228 before the TTL ran out, de-authenticates
\* the session and takes its id out of the registry as well.
C10_Expiry ==
  [][\A b \in Browsers :
       LET ss == session_state[b] IN
       /\ (/\ Started(b)
           /\ ss.auth_ok
           /\ ss.session_id \in DOMAIN _ACTIVE_SESSIONS[b]
           /\ PastTtl(_ACTIVE_SESSIONS[b][ss.session_id]))
          => PastTtl(ss.login_ts)
       /\ (/\ Gated(b)
           /\ ss.auth_ok
           /\ PastTtl(ss.login_ts))
          => /\ ~session_state'[b].auth_ok
             /\ ~req'[b].authed
             /\ pc'[b] = "login"
             /\ ss.session_id \notin DOMAIN Registry(b)'
       /\ (/\ pc[b] = "main"
           /\ pc'[b] /= pc[b]
           /\ req[b].click /= "logout"
           /\ ss.auth_ok
           /\ PastTtl(ss.login_ts))
          => /\ ~session_state'[b].auth_ok
             /\ ss.session_id \notin DOMAIN Registry(b)']_vars

\* A session was found expired by the check and is at the login form.
C10_Witness ==
  \E b \in Browsers :
    /\ pc[b] = "login"
    /\ notice[b] = "expired"
    /\ ~session_state[b].auth_ok

\* C11: a logged-in session whose last activity (the timestamp its last
\* authenticated request wrote for its id) is within the session TTL when its
\* next request starts is still within the TTL the authentication check
\* measures, and a session within that TTL passes the check: activity keeps a
\* session authenticated however long ago it logged in.
C11_ActivityKeepsAlive ==
  [][\A b \in Browsers :
       LET ss == session_state[b] IN
       /\ (/\ Started(b)
           /\ ss.auth_ok
           /\ ss.session_id \in DOMAIN _ACTIVE_SESSIONS[b]
           /\ ~PastTtl(_ACTIVE_SESSIONS[b][ss.session_id]))
          => ~PastTtl(ss.login_ts)
       /\ (/\ Gated(b)
           /\ ss.auth_ok
           /\ ~PastTtl(ss.login_ts))
          => req'[b].authed]_vars

\* C12: a login attempt with a password different from the shared one ends at
\* the login form with the error: the session stays unauthenticated and as it
\* was, no id is created, and the registry is exactly as it was, its stale
\* entries included.
C12_WrongPasswordNoEffect ==
  [][\A b \in Browsers :
       (/\ pc[b] = "login"
        /\ pc'[b] /= pc[b]
        /\ req[b].click = "login"
        /\ req[b].password /= SharedPassword)
       => /\ ~session_state'[b].auth_ok
          /\ session_state'[b] = session_state[b]
          /\ query_params'[b] = query_params[b]
          /\ st_query_params' = st_query_params
          /\ _ACTIVE_SESSIONS' = _ACTIVE_SESSIONS
          /\ pc'[b] = "idle"
          /\ page'[b] = "login"
          /\ notice'[b] = "login_error"]_vars

\* A login was refused and the registry still holds an entry older than the
\* prune TTL, which a capacity check would have pruned.
C12_Witness ==
  \E b \in Browsers :
    /\ pc[b] = "idle"
    /\ notice[b] = "login_error"
    /\ ~session_state[b].auth_ok
    /\ \E sid \in DOMAIN Registry(b) : (now - Registry(b)[sid]) > PruneTtl

\* C13: a login refused for a wrong password and a login refused by the
\* capacity check show different notices: what the first one shows is not
\* what the second one shows, and conversely.
C13_FailureReasonsDistinct ==
  [][\A b \in Browsers :
       /\ (pc[b] = "login" /\ req[b].click = "login" /\ pc'[b] = "idle")
            => notice'[b] /= LoginErrorNotice(TRUE)
       /\ (pc[b] = "can_login" /\ pc'[b] = "idle")
            => notice'[b] /= LoginErrorNotice(FALSE)]_vars

\* C14: while no session is active, the capacity check of a login with the
\* correct password passes, and the login then marks the session
\* authenticated, gives it a session id and leaves a registry that holds
\* exactly that id.
C14_FirstLogin ==
  [][\A b \in Browsers :
       /\ (/\ pc[b] = "can_login"
           /\ pc'[b] /= pc[b]
           /\ req[b].password = SharedPassword
           /\ ActiveOthers({}) = {})
          => pc'[b] = "admitted"
       /\ (/\ pc[b] = "admitted"
           /\ pc'[b] /= pc[b]
           /\ ActiveOthers({}) = {})
          => /\ session_state'[b].auth_ok
             /\ session_state'[b].session_id /= None
             /\ DOMAIN Registry(b)' = {session_state'[b].session_id}]_vars

\* A session has just logged in while no other session was active, and the
\* registry holds its id alone.
C14_Witness ==
  \E b \in Browsers :
    /\ notice[b] = "login_ok"
    /\ session_state[b].auth_ok
    /\ ActiveOthers({b}) = {}
    /\ DOMAIN Registry(b) = {session_state[b].session_id}

\* C15: a logout takes the session's id out of the registry whatever the
\* registry holds, leaves the other entries alone, de-authenticates the session
\* and leaves no token for its next run to read; removing the session again, with or without its
\* id, changes nothing; and when the registry was at the cap with the session
\* in it, a login that the capacity check refused before the logout is
\* admitted after it.
C15_LogoutIdempotent ==
  [][\A b \in Browsers :
       (/\ pc[b] = "main"
        /\ pc'[b] /= pc[b]
        /\ req[b].click = "logout")
       => LET ss == session_state[b]
              before == Registry(b)
              after == Registry(b)'
              live == PruneSessions(before, now)
          IN /\ ss.session_id \notin DOMAIN after
             /\ \A sid \in DOMAIN before \ {ss.session_id} :
                  sid \in DOMAIN after /\ after[sid] = before[sid]
             /\ ~session_state'[b].auth_ok
             /\ session_state'[b] = EmptyState
             /\ QueryParams(b)' = NoParams
             /\ RemoveSession(session_state'[b], after) = after
             /\ RemoveSession(ss, after) = after
             /\ (/\ Cardinality(DOMAIN live) = MaxSessions
                 /\ ss.session_id \in DOMAIN live
                 /\ ~CanLoginWithConcurrencyLimit(EmptyState, before, now).ok)
                => CanLoginWithConcurrencyLimit(EmptyState, after, now).ok]_vars

\* A session has logged out of a registry that was at the cap: one slot is
\* free and the session is at the login form's rerun, unauthenticated.
C15_Witness ==
  \E b \in Browsers :
    /\ pc[b] = "idle"
    /\ page[b] = "rerun"
    /\ session_state[b] = EmptyState
    /\ query_params[b] = NoParams
    /\ Cardinality(DOMAIN PruneSessions(Registry(b), now)) = MaxSessions - 1

\* The step of b runs _touch_session: the registration of a login or the
\* activity touch of an authenticated request.
TouchStep(b) ==
  /\ pc'[b] /= pc[b]
  /\ \/ pc[b] = "admitted"
     \/ /\ pc[b] = "main"
        /\ req[b].click /= "logout"
        /\ session_state'[b].auth_ok

\* C16: a touch of a session id that is not in the registry is a no-op: the
\* id is not in the registry afterwards and the key set is unchanged.
C16_TouchAbsentNoOp ==
  [][\A b \in Browsers :
       (/\ TouchStep(b)
        /\ session_state'[b].session_id \notin DOMAIN Registry(b))
       => /\ session_state'[b].session_id \notin DOMAIN Registry(b)'
          /\ DOMAIN Registry(b)' = DOMAIN Registry(b)]_vars

\* C17: the capacity check of a login with the correct password from a session
\* whose id is in the registry (and not prunable) passes even when the
\* registry is at or above the cap, and the registration that follows keeps
\* the session's id and does not add an entry.
C17_IdempotentReadmission ==
  [][\A b \in Browsers :
       LET ss == session_state[b]
           live == PruneSessions(Registry(b), now)
       IN /\ (/\ pc[b] = "can_login"
               /\ pc'[b] /= pc[b]
               /\ req[b].password = SharedPassword
               /\ ss.session_id /= None
               /\ ss.session_id \in DOMAIN live
               /\ Cardinality(DOMAIN live) >= MaxSessions)
              => /\ pc'[b] = "admitted"
                 /\ DOMAIN Registry(b)' = DOMAIN live
          /\ (/\ pc[b] = "admitted"
               /\ pc'[b] /= pc[b]
               /\ ss.session_id /= None
               /\ ss.session_id \in DOMAIN live)
              => /\ session_state'[b].auth_ok
                 /\ session_state'[b].session_id = ss.session_id
                 /\ DOMAIN Registry(b)' = DOMAIN live]_vars

\* A session whose id is in a registry at the cap has passed the capacity
\* check of its login.
C17_Witness ==
  \E b \in Browsers :
    /\ pc[b] = "admitted"
    /\ session_state[b].session_id /= None
    /\ session_state[b].session_id \in DOMAIN Registry(b)
    /\ Cardinality(DOMAIN Registry(b)) = MaxSessions

\* C18: no two concurrent requests are inside a block guarded by
\* _ACTIVE_SESSIONS_LOCK, where the registry is mutated, at the same time.
C18_MutualExclusion ==
  \A a, b \in Browsers : (Holds(a) /\ Holds(b)) => a = b

\* The positions of a run in the Clear handler and in a model call.
ClearPcs == {"call", "clear_build", "clear_assign"}
CallPcs == {"calling", "predicting"}

\* The step of b is a step of a Clear Chat History made on tab m.
ClearStep(b, m) ==
  pc[b] \in ClearPcs /\ pc'[b] /= pc[b] /\ req[b].click = "clear" /\ req[b].tab = m

\* The step of b is the last step of a Clear Chat History made on tab m.
ClearEnds(b, m) == ClearStep(b, m) /\ pc'[b] = "idle"

\* The step of b is the first half of a send made on tab m: the user turn is
\* recorded and the model called (or the client cannot be built).
CallStep(b, m) ==
  /\ pc[b] = "call"
  /\ pc'[b] /= pc[b]
  /\ req[b].click \in {"qa_send", "normal_send"}
  /\ req[b].tab = m

\* The step of b is the end of a wait for the model in mode m.
WaitStep(b, m) == pc[b] \in CallPcs /\ pc'[b] /= pc[b] /\ req[b].tab = m

\* The step of b is the return of the model call it made in mode m.
ReturnStep(b, m) == WaitStep(b, m) /\ pc'[b] = "idle"

\* The step of b is a step of a send made on tab m.
SendStep(b, m) == CallStep(b, m) \/ WaitStep(b, m)

\* The step of b is the last step of a send made on tab m.
SendEnds(b, m) == SendStep(b, m) /\ pc'[b] = "idle"

\* The messages of mode m that b was shown when its send in progress started.
BeforeSend(b, m) ==
  LET h == Messages(session_state[b], m)
  IN IF pc[b] \in CallPcs THEN SubSeq(h, 1, Len(h) - 1) ELSE h

OtherMode(m) == IF m = "qa" THEN "normal" ELSE "qa"

\* C19: a send or a clear made while the user is on the tab of one mode leaves
\* the other mode's displayed messages and model memory unchanged.
C19_ModeIsolation ==
  [][\A b \in Browsers : \A m \in Modes :
       (ClearStep(b, m) \/ SendStep(b, m))
       => /\ Messages(session_state'[b], OtherMode(m))
               = Messages(session_state[b], OtherMode(m))
          /\ memory'[OtherMode(m)] = memory[OtherMode(m)]]_vars

\* C20: a clear made on the tab of a mode in which the user has sent messages
\* empties that mode's displayed messages and model memory, for qa and for
\* normal.
C20_ClearActsOnModeInUse ==
  [][\A b \in Browsers : \A m \in Modes :
       (ClearEnds(b, m) /\ Messages(session_state[b], m) /= <<>>)
       => /\ Messages(session_state'[b], m) = <<>>
          /\ memory'[m] = <<>>]_vars

\* The text recorded in place of a reply when a send failed: one of the six
\* messages of get_chat_response, or the text the handler makes of an exception.
FixedMessages ==
  {ConnectionErrorText, AuthenticationErrorText, ConfigurationErrorText,
   RateLimitText, ModelErrorText, GenericErrorText}

IsFailureText(t) == t \in FixedMessages \/ (t /= <<>> /\ Head(t) = Head(SorryText(<<>>)))

Exchange(prompt, text) == <<Turn("user", prompt), Turn("assistant", text)>>

\* h is made of exchanges, each a user turn followed by the reply to its text.
Answered(h) ==
  /\ Len(h) % 2 = 0
  /\ \A i \in DOMAIN h :
       IF i % 2 = 1 THEN h[i].role = "user"
       ELSE h[i] = Turn("assistant", Reply(h[i - 1].content))

NoFailureIn(h) == \A i \in DOMAIN h : ~IsFailureText(h[i].content)

\* C21: with no failure recorded and no send in progress, the messages shown
\* for a mode are user turns each followed by the reply to it, and so is the
\* mode's memory; a send records the user turn with the text sent at the end
\* of the messages when it calls the model, and when the call returns the
\* assistant turn with the reply after it, and the exchange at the end of the
\* memory, so that N sends leave 2N turns in call order.
C21_AppendOnlyOrdering ==
  /\ [](\A b \in Browsers : \A m \in Modes :
          /\ (pc[b] \notin CallPcs /\ NoFailureIn(Messages(session_state[b], m)))
               => Answered(Messages(session_state[b], m))
          /\ NoFailureIn(memory[m]) => Answered(memory[m]))
  /\ [][\A b \in Browsers : \A m \in Modes :
          LET h == Messages(session_state[b], m)
              h2 == Messages(session_state'[b], m)
              p == req[b].prompt
          IN /\ (CallStep(b, m) /\ pc'[b] = "calling")
                  => h2 = h \o <<Turn("user", p)>> /\ memory' = memory
             /\ SendEnds(b, m) => Len(h2) = Len(BeforeSend(b, m)) + 2
             /\ (ReturnStep(b, m) /\ req[b].outcome = Returned)
                  => /\ h2 = BeforeSend(b, m) \o Exchange(p, Reply(p))
                     /\ memory'[m] = memory[m] \o Exchange(p, Reply(p))]_vars

C21_Witness ==
  \E b \in Browsers : \E m \in Modes :
    /\ pc[b] = "idle"
    /\ Messages(session_state[b], m)
         = Exchange(<<"p1">>, Reply(<<"p1">>)) \o Exchange(<<"p2">>, Reply(<<"p2">>))
    /\ memory[m] = Messages(session_state[b], m)

\* The step of b is the one that takes a Clear Chat History to st.rerun().
ClearDone(b) ==
  pc[b] = "clear_assign" /\ req[b].click = "clear" /\ pc'[b] /= pc[b] /\ page'[b] = "rerun"

\* The mode the Clear handler reads at line 681.
CurrentMode(b) == session_state[b].chat_mode

\* Mode m is as a clear leaves it: no message shown, no turn in the memory,
\* the chain bound to the memory object of the mode.
Cleared(b, m) ==
  /\ Messages(session_state[b], m) = <<>>
  /\ memory[m] = <<>>
  /\ chat_globals[m].memory /= NoObject
  /\ chat_globals[m] = BindChain(chat_globals[m], chat_globals[m].memory, <<>>)

\* The step of b is a step of a Clear Chat History other than the failure of
\* clear_memory.
ClearHandlerStep(b) ==
  /\ pc[b] \in ClearPcs
  /\ req[b].click = "clear"
  /\ pc'[b] /= pc[b]
  /\ pc'[b] = "idle" => page'[b] = "rerun"

\* C22: after a clear, the messages shown for the cleared mode and the mode's
\* memory (what get_memory_messages returns) are empty and the mode's chain
\* is bound to that memory, the other mode left as it was; and a clear of a
\* mode that a clear has left so (a second clear in a row) changes none of
\* the messages, memories and chains of the two modes, at any of its steps.
C22_ClearIdempotent ==
  [][\A b \in Browsers :
       LET m == CurrentMode(b)
       IN /\ ClearDone(b) => Cleared(b, m)'
          /\ ClearHandlerStep(b)
               => /\ memory'[OtherMode(m)] = memory[OtherMode(m)]
                  /\ chat_globals'[OtherMode(m)] = chat_globals[OtherMode(m)]
                  /\ Messages(session_state'[b], OtherMode(m))
                       = Messages(session_state[b], OtherMode(m))
          /\ (ClearHandlerStep(b) /\ Cleared(b, m))
               => /\ memory' = memory
                  /\ chat_globals' = chat_globals
                  /\ \A k \in Modes :
                       Messages(session_state'[b], k) = Messages(session_state[b], k)]_vars

\* The session, which held turns in the normal mode and has not expired since,
\* has cleared it, and a second clear of the mode has emptied the memory again
\* and made its chain; the other mode still holds its exchange.
C22_Witness ==
  /\ pc[ConvBrowser] = "clear_assign"
  /\ session_state[ConvBrowser].auth_ok
  /\ CurrentMode(ConvBrowser) = "normal"
  /\ Cleared(ConvBrowser, "normal")
  /\ Messages(session_state[ConvBrowser], "qa") /= <<>>
  /\ memory["qa"] = Messages(session_state[ConvBrowser], "qa")

\* The step of b is the return of a send in mode m whose completion call ends
\* with an exception.
FailedSendStep(b, m) ==
  ReturnStep(b, m) /\ req[b].chain /= NoObject /\ FinalOutcome(req[b].outcome).raises

\* C23: a send whose completion call fails records the user turn with the text
\* sent followed by an assistant turn holding one of the fixed error messages,
\* at the end of the messages shown for the mode and at the end of the mode's
\* memory (what get_memory_messages returns).
C23_FailureRecorded ==
  [][\A b \in Browsers : \A m \in Modes :
       FailedSendStep(b, m)
       => \E e \in FixedMessages :
            /\ Messages(session_state'[b], m)
                 = BeforeSend(b, m) \o Exchange(req[b].prompt, e)
            /\ memory'[m] = memory[m] \o Exchange(req[b].prompt, e)]_vars

\* The exchange h[i], h[i+1] is found in mem.
Replayed(h, i, mem) ==
  \E j \in DOMAIN mem : j < Len(mem) /\ mem[j] = h[i] /\ mem[j + 1] = h[i + 1]

\* C24: when a send of a mode is about to call the model, every failed exchange
\* that the mode's list still shows (the failed user turn and the error message
\* recorded for it, not cleared since) is in the mode's memory, which is the
\* history the chain submits with the call.
C24_FailureReplayed ==
  \A b \in Browsers : \A m \in Modes :
    (pc[b] = "call" /\ req[b].click \in {"qa_send", "normal_send"} /\ req[b].tab = m)
    => \A i \in DOMAIN Messages(session_state[b], m) :
         (i < Len(Messages(session_state[b], m))
            /\ Messages(session_state[b], m)[i].role = "user"
            /\ Messages(session_state[b], m)[i + 1].content \in FixedMessages)
         => Replayed(Messages(session_state[b], m), i, memory[m])

\* C25: while no run is in progress, the messages shown to a logged-in session
\* for a mode are the turns of the mode's memory, in the same order.
C25_OneHistory ==
  (\A b \in Browsers : pc[b] = "idle")
  => \A b \in Browsers : \A m \in Modes :
       session_state[b].auth_ok => Messages(session_state[b], m) = memory[m]

\* The step of b is a step of the handler of a chat widget: a send or a clear.
ChatStep(b) ==
  pc[b] \in ClearPcs \cup CallPcs /\ pc'[b] /= pc[b] /\ req[b].click \in ChatClicks

\* The history the chain of mode m reads from chat.py's memory when session c
\* sends its next message.
PromptHistory(mem, c, m) == mem[m]

\* C26: a send or a clear made by one session leaves unchanged, for every other
\* logged-in session and every mode, the messages that session is shown and the
\* history that is submitted to the model with that session's next message.
C26_MemoryPerSession ==
  [][\A b \in Browsers : \A c \in Browsers \ {b} : \A m \in Modes :
       (ChatStep(b) /\ session_state[c].auth_ok)
       => /\ Messages(session_state'[c], m) = Messages(session_state[c], m)
          /\ PromptHistory(memory', c, m) = PromptHistory(memory, c, m)]_vars

\* C27: whatever makes a send fail, the run ends without an exception and its
\* stack trace on the page, and the assistant turn it records is the reply or
\* one of the six fixed messages.
C27_NoRawErrorDetail ==
  [][\A b \in Browsers : \A m \in Modes :
       SendEnds(b, m)
       => /\ notice'[b] /= "exception"
          /\ \E t \in FixedMessages \cup {Reply(req[b].prompt)} :
               Messages(session_state'[b], m)
                 = BeforeSend(b, m) \o Exchange(req[b].prompt, t)]_vars

\* The phrases with which a timeout or a connection failure is reported.
TimeoutPhrases == {"timeout", "Request timed out."}
ConnectionPhrases == {"Connection error.", "could not connect"}

IsTimeoutOrConnection(msg) ==
  \E i \in DOMAIN msg : msg[i] \in TimeoutPhrases \cup ConnectionPhrases

\* C28: a send whose completion call fails with a timeout or a connection
\* failure, whatever else the failure reason mentions, records the fixed
\* Connection Error message as the assistant turn and ends without an exception.
C28_TimeoutIsConnectionError ==
  [][\A b \in Browsers : \A m \in Modes :
       (FailedSendStep(b, m) /\ IsTimeoutOrConnection(FinalOutcome(req[b].outcome).msg))
       => /\ notice'[b] /= "exception"
          /\ Messages(session_state'[b], m)
               = BeforeSend(b, m) \o Exchange(req[b].prompt, ConnectionErrorText)]_vars

\* The step of b is a step of a clear of mode m that goes through to
\* st.rerun().
ClearOf(b, m) ==
  /\ pc[b] \in ClearPcs
  /\ req[b].click = "clear"
  /\ pc'[b] /= pc[b]
  /\ pc'[b] = "idle" => page'[b] = "rerun"
  /\ CurrentMode(b) = m

\* C29: the messages shown to a session for a mode, and the mode's memory, go
\* from empty to filled only by a send in that mode and from filled to empty
\* only by a clear of that mode.
C29_ModeStateMachine ==
  [][\A m \in Modes :
       /\ \A b \in Browsers :
            /\ (Messages(session_state[b], m) = <<>> /\ Messages(session_state'[b], m) /= <<>>)
               => SendStep(b, m)
            /\ (Messages(session_state[b], m) /= <<>> /\ Messages(session_state'[b], m) = <<>>)
               => ClearOf(b, m)
       /\ (memory[m] = <<>> /\ memory'[m] /= <<>>) => \E b \in Browsers : SendStep(b, m)
       /\ (memory[m] /= <<>> /\ memory'[m] = <<>>) => \E b \in Browsers : ClearOf(b, m)]_vars

IsPrefix(s, t) == Len(s) <= Len(t) /\ \A i \in DOMAIN s : s[i] = t[i]

\* C30: every step of a send, failed or not, keeps the turns the mode's list
\* and memory held, in place; the send adds to the list a user turn with the
\* text sent, also when the list already holds a user turn with that text,
\* and an assistant turn after it.
C30_AppendKeepsPast ==
  [][\A b \in Browsers : \A m \in Modes :
       LET h == Messages(session_state[b], m)
           h2 == Messages(session_state'[b], m)
       IN /\ SendStep(b, m) => IsPrefix(h, h2) /\ IsPrefix(memory[m], memory'[m])
          /\ CallStep(b, m)
               => /\ Len(h2) = Len(h) + (IF pc'[b] = "calling" THEN 1 ELSE 2)
                  /\ h2[Len(h) + 1] = Turn("user", req[b].prompt)
          /\ ReturnStep(b, m)
               => /\ Len(h2) = Len(h) + 1
                  /\ h[Len(h)] = Turn("user", req[b].prompt)
                  /\ h2[Len(h2)].role = "assistant"]_vars

C30_Witness ==
  \E b \in Browsers : \E m \in Modes :
    /\ pc[b] = "idle"
    /\ Len(Messages(session_state[b], m)) = 4
    /\ Messages(session_state[b], m)[1] = Turn("user", <<"p1">>)
    /\ Messages(session_state[b], m)[3] = Turn("user", <<"p1">>)

\* The registry entry of sid is older than the configured session lifetime.
PastSessionTtl(reg, sid) == (now - reg[sid]) > SessionMinutes

\* The step of b is a call of _prune_sessions: the one of the capacity check
\* of a login attempt (line 146) or the one of _touch_session (line 132),
\* which the login and the authentication check of a request run.
PruneStep(b) ==
  pc[b] \in {"can_login_locked", "touch_locked", "main_touch_locked"} /\ pc'[b] /= pc[b]

GroupMessages ==
  <<ConnectionErrorText, AuthenticationErrorText, ConfigurationErrorText,
    RateLimitText, ModelErrorText>>

MatchesGroup(msg, g) ==
  LET has(kw) == \E i \in DOMAIN msg : kw \in KeywordsIn(msg[i])
  IN CASE g = 1 -> has("connection") \/ has("timeout") \/ has("connect")
       [] g = 2 -> has("authentication") \/ has("unauthorized") \/ has("api key")
       [] g = 3 -> has("endpoint") \/ has("url")
       [] g = 4 -> has("rate limit") \/ has("quota")
       [] g = 5 -> has("model") /\ (has("not found") \/ has("deployment"))

\* C32: a send whose chain call fails records the message of the first keyword
\* group, in the order connection, authentication, endpoint, rate limit, model,
\* that the failure reason matches, and the generic message when it matches
\* none; so a reason is recorded as rate limiting or as a missing model only
\* when it matches no earlier group.
C32_ClassificationOrder ==
  [][\A b \in Browsers : \A m \in Modes :
       FailedSendStep(b, m)
       => LET msg == FinalOutcome(req[b].outcome).msg
              h == Messages(session_state'[b], m)
              text == h[Len(h)].content
              hits == {g \in DOMAIN GroupMessages : MatchesGroup(msg, g)}
          IN /\ Len(h) = Len(BeforeSend(b, m)) + 2
             /\ text \in FixedMessages
             /\ hits = {} => text = GenericErrorText
             /\ \A g \in hits : (\A k \in hits : g <= k) => text = GroupMessages[g]
             /\ text = RateLimitText => \A g \in 1..3 : ~MatchesGroup(msg, g)
             /\ text = ModelErrorText => \A g \in 1..4 : ~MatchesGroup(msg, g)]_vars

C32_Witness ==
  \E b \in Browsers : \E m \in Modes :
    /\ pc[b] = "idle"
    /\ Messages(session_state[b], m) = Exchange(<<"p1">>, RateLimitText)
    /\ memory[m] = <<>>

\* ------------------------------------------- a send as a call and its return
\* Two logged-in browser sessions; a send is a call of the model and, later,
\* its return: the script runs of different sessions are threads of one
\* process, and chat.py takes no lock.
RaceBrowsers == {"b1", "b2"}


InitRace ==
  /\ now = 1
  /\ session_state = [b \in Browsers |->
       IF b \in RaceBrowsers THEN LoggedIn(b) ELSE EmptyState]
  /\ \E p \in PlatformAfter(RaceBrowsers) :
       /\ st_query_params = p.st
       /\ query_params = p.url
  /\ _ACTIVE_SESSIONS = [b \in Browsers |->
       IF b \in RaceBrowsers THEN Put(EmptyDict, LoggedIn(b).session_id, 1)
       ELSE EmptyDict]
  /\ memory = [m \in Modes |-> <<>>]
  /\ llm = "ready"
  /\ chat_globals = CreatedObjects
  /\ secrets = FlatSecrets
  /\ client_outcome = Returned
  /\ pc = [b \in Browsers |-> "idle"]
  /\ req = [b \in Browsers |-> NoReq]
  /\ page = [b \in Browsers |-> IF b \in RaceBrowsers THEN "main" ELSE "new"]
  /\ notice = [b \in Browsers |-> "none"]

\* The first session sends, the second one clears.
Sender == "b1"
Clearer == "b2"

\* A call returns, fails, or fails in chain.invoke with a TypeError and
\* returns from the chain.predict that follows.
RaceOutcomes == Outcomes \cup {RaisedTypeError(<<"internal error">>, Returned)}

NextRace ==
  \/ StartRunWith(Sender, {"none", "qa_send", "normal_send"}, Prompts, MaxHistory,
                  RaceOutcomes)
  \/ StartRunWith(Clearer, {"none", "clear"}, Prompts, MaxHistory, RaceOutcomes)
  \/ \E b \in RaceBrowsers : AuthGate(b)
  \/ \E b \in RaceBrowsers : ActivityTouch(b)
  \/ \E b \in RaceBrowsers : ChatSetup(b)
  \/ \E b \in RaceBrowsers : ClearChat(b)
  \/ \E b \in RaceBrowsers : ClearBuild(b)
  \/ \E b \in RaceBrowsers : ClearAssign(b)
  \/ \E b \in RaceBrowsers : CallModel(b)
  \/ \E b \in RaceBrowsers : CallReturns(b)
  \/ \E b \in RaceBrowsers : PredictReturns(b)
  \/ \E b \in RaceBrowsers : RenderMain(b)

SpecRace == InitRace /\ [][NextRace]_vars


\* C33: a model call that returns after a clear of its mode has returned adds
\* no turn to the mode's memory. The call started before the clear when the
\* history it submitted is no longer the beginning of the memory (turns are
\* removed by clear_memory only); the clear is made by another session while
\* the call is outstanding, and has returned when no session is inside
\* clear_memory.
C33_ClearIsFinal ==
  [][\A b \in Browsers : \A m \in Modes :
       (/\ ReturnStep(b, m)
        /\ ~IsPrefix(req[b].history, memory[m])
        /\ \A c \in Browsers : pc[c] \notin {"clear_build", "clear_assign"})
       => memory'[m] = memory[m]]_vars

\* ------------------------------------ the URL restore as a check and a write
\* A session that logs out while a second browser session, opened on the
\* first one's URL (its token and signature), restores from it. The restore
\* is a membership test (line 106, outside the lock) and, when it passed, the
\* writes of lines 107-113.
LoggingOut == "b1"
Restoring == "b2"
RestoreBrowsers == {LoggingOut, Restoring}
RestoreClicks == {"none", "logout"}

InitRestore ==
  /\ now = 1
  /\ session_state = [b \in Browsers |->
       IF b = LoggingOut THEN LoggedIn(b) ELSE EmptyState]
  /\ \E p \in PlatformAfter({LoggingOut}) :
       /\ st_query_params = p.st
       /\ query_params = [p.url EXCEPT ![Restoring] = p.url[LoggingOut]]
  /\ _ACTIVE_SESSIONS = [b \in Browsers |->
       IF b = LoggingOut THEN Put(EmptyDict, LoggedIn(b).session_id, 1) ELSE EmptyDict]
  /\ memory = [m \in Modes |-> <<>>]
  /\ llm = "ready"
  /\ chat_globals = CreatedObjects
  /\ secrets = FlatSecrets
  /\ client_outcome = Returned
  /\ pc = [b \in Browsers |-> "idle"]
  /\ req = [b \in Browsers |-> NoReq]
  /\ page = [b \in Browsers |-> IF b = LoggingOut THEN "main" ELSE "new"]
  /\ notice = [b \in Browsers |-> "none"]

\* lines 79-81: a rerun of browser session b starts; the script creates the
\* lock and the registry of the run.
StartScript(b, clicks) ==
  /\ pc[b] = "idle"
  /\ \E c \in Clicks(b) \cap clicks :
       req' = [req EXCEPT ![b] = [NoReq EXCEPT !.click = c]]
  /\ _ACTIVE_SESSIONS' = WithRegistry(b, EmptyDict)
  /\ pc' = [pc EXCEPT ![b] = "restore"]
  /\ notice' = [notice EXCEPT ![b] = "none"]
  /\ UNCHANGED <<now, session_state, query_params, st_query_params, memory, llm, chat_globals, secrets, client_outcome, page>>

\* lines 83-115: the parameters are read into the locals _tok and _sig (lines
\* 86-98) and the condition of line 106 is evaluated on the registry as it is
\* then; a run that passed it writes the session fields and, holding the
\* lock, the registry entry (lines 107-113) in a later step, with the _tok it
\* read before the test.
RestoreFromUrl(b) ==
  /\ pc[b] \in {"restore", "restored"}
  /\ LET tok == QueryParams(b).auth
         sig == QueryParams(b).sig
         passes == tok /= None /\ sig /= NoSig /\ RestoreAccepts(tok, sig, Registry(b))
     IN IF pc[b] = "restore"
        THEN /\ pc' = [pc EXCEPT ![b] = IF passes THEN "restored" ELSE "gate"]
             /\ req' = [req EXCEPT ![b].tok = IF passes THEN tok ELSE None]
             /\ UNCHANGED <<session_state, _ACTIVE_SESSIONS>>
        ELSE /\ session_state' = [session_state EXCEPT ![b] =
                  [@ EXCEPT !.session_id = req[b].tok, !.auth_ok = TRUE, !.login_ts = now]]
             /\ _ACTIVE_SESSIONS' = WithRegistry(b, Put(Registry(b), req[b].tok, now))
             /\ req' = [req EXCEPT ![b].tok = None]
             /\ pc' = [pc EXCEPT ![b] = "gate"]
  /\ UNCHANGED <<now, query_params, st_query_params, memory, llm, chat_globals, secrets, client_outcome, page, notice>>

NextRestore ==
  \/ Tick
  \/ \E b \in RestoreBrowsers : OpenPage(b, OwnUrl(b))
  \/ \E b \in RestoreBrowsers : StartScript(b, RestoreClicks)
  \/ \E b \in RestoreBrowsers : RestoreFromUrl(b)
  \/ \E b \in RestoreBrowsers : AuthGate(b)
  \/ \E b \in RestoreBrowsers : RenderLogin(b)
  \/ \E b \in RestoreBrowsers : Logout(b)
  \/ \E b \in RestoreBrowsers : ActivityTouch(b)
  \/ \E b \in RestoreBrowsers : ChatSetup(b)
  \/ \E b \in RestoreBrowsers : RenderMain(b)

SpecRestore == InitRestore /\ [][NextRestore]_vars

\* The registry test of the URL restore (lines 99-113) applied to every token
\* and registry of a bounded set: the run of one browser is at the restore with
\* a URL or an st.query_params dict that carries any id with any signature,
\* and with _ACTIVE_SESSIONS holding that id or not. These are arguments of
\* the test: the script itself evaluates it on the dict line 81 has just
\* created.
VerifyTokens ==
  {NoParams}
    \cup {[auth |-> i, sig |-> sg] :
            i \in Pool(ConvBrowser),
            sg \in {NoSig} \cup {Hmac(k, j) : k \in Passwords, j \in Pool(ConvBrowser)}}
VerifyRegistries == UNION {[S -> {1}] : S \in SUBSET Pool(ConvBrowser)}

InitVerify ==
  /\ now = 1
  /\ session_state \in {[[b \in Browsers |-> EmptyState] EXCEPT ![ConvBrowser] = ss] :
                          ss \in {EmptyState, LoggedIn(ConvBrowser)}}
  /\ \E t \in VerifyTokens :
       \/ /\ st_query_params = [kind |-> "session", value |-> NoParams]
          /\ query_params = [[b \in Browsers |-> NoParams] EXCEPT ![ConvBrowser] = t]
       \/ /\ st_query_params = [kind |-> "dict", value |-> t]
          /\ query_params = [b \in Browsers |-> NoParams]
  /\ _ACTIVE_SESSIONS \in {[[b \in Browsers |-> EmptyDict] EXCEPT ![ConvBrowser] = reg] :
                              reg \in VerifyRegistries}
  /\ memory = [m \in Modes |-> <<>>]
  /\ llm = "ready"
  /\ chat_globals = CreatedObjects
  /\ secrets = FlatSecrets
  /\ client_outcome = Returned
  /\ pc = [[b \in Browsers |-> "idle"] EXCEPT ![ConvBrowser] = "restore"]
  /\ req = [b \in Browsers |-> NoReq]
  /\ page = [[b \in Browsers |-> "new"] EXCEPT ![ConvBrowser] =
       IF session_state[ConvBrowser].auth_ok THEN "rerun" ELSE "new"]
  /\ notice = [b \in Browsers |-> "none"]

NextVerify ==
  \/ RestoreFromUrl(ConvBrowser)
  \/ AuthGate(ConvBrowser)
  \/ RenderLogin(ConvBrowser)
  \/ ActivityTouch(ConvBrowser)
  \/ ChatSetup(ConvBrowser)
  \/ RenderMain(ConvBrowser)

SpecVerify == InitVerify /\ [][NextVerify]_vars

\* The session id the first session logged in with and both URLs carry.
LoggedOutId == LoggedIn(LoggingOut).session_id

\* The first session has just logged out (the page its logout leaves is on
\* screen) and no run is in progress.
BothFinished ==
  /\ page[LoggingOut] = "rerun"
  /\ \A b \in Browsers : pc[b] = "idle"

InitBrowsers == {"b1", "b2"}

\* st.session_state as LoginRegister leaves it
JustLoggedIn(b) == [LoggedIn(b) EXCEPT !.chat_mode = "none"]

InitThreads ==
  /\ now = 1
  /\ session_state = [b \in Browsers |->
       IF b \in InitBrowsers THEN JustLoggedIn(b) ELSE EmptyState]
  /\ \E p \in PlatformAfter(InitBrowsers) :
       /\ st_query_params = p.st
       /\ query_params = p.url
  /\ _ACTIVE_SESSIONS = [b \in Browsers |->
       IF b \in InitBrowsers THEN Put(EmptyDict, LoggedIn(b).session_id, 1)
       ELSE EmptyDict]
  /\ memory = [m \in Modes |-> <<>>]
  /\ llm = "none"
  /\ chat_globals = NoObjects
  /\ \E d \in Deployments :
       /\ CheckEnvVariables(d.secrets) = {}
       /\ secrets = d.secrets
       /\ client_outcome = d.client
  /\ pc = [b \in Browsers |-> "idle"]
  /\ req = [b \in Browsers |-> NoReq]
  /\ page = [b \in Browsers |-> IF b \in InitBrowsers THEN "rerun" ELSE "new"]
  /\ notice = [b \in Browsers |-> IF b \in InitBrowsers THEN "login_ok" ELSE "none"]

NextThreads ==
  \/ \E b \in InitBrowsers :
       StartRunWith(b, IF b = "b1" THEN {"none"} \cup ChatClicks ELSE {"none", "clear"},
                    Prompts, MaxTurns, Outcomes)
  \/ \E b \in InitBrowsers : AuthGate(b)
  \/ \E b \in InitBrowsers : ActivityTouch(b)
  \/ \E b \in InitBrowsers : ChatSetup(b)
  \/ \E b \in InitBrowsers : InitClient(b)
  \/ \E b \in InitBrowsers : \E m \in Modes : InitMemory(b, m)
  \/ \E b \in InitBrowsers : \E m \in Modes : InitChain(b, m)
  \/ \E b \in InitBrowsers : \E m \in Modes : InitChainAssign(b, m)
  \/ \E b \in InitBrowsers : ClearChat(b)
  \/ \E b \in InitBrowsers : ClearBuild(b)
  \/ \E b \in InitBrowsers : ClearAssign(b)
  \/ \E b \in InitBrowsers : CallModel(b)
  \/ \E b \in InitBrowsers : CallReturns(b)
  \/ \E b \in InitBrowsers : RenderMain(b)

SpecThreads == InitThreads /\ [][NextThreads]_vars

\* C35: whenever llm is set, both modes' memories and both modes' chains are
\* set, in every state, those in the middle of _init_llm included.
C35_InitializedTogether ==
  llm /= "none"
  => \A m \in Modes :
       chat_globals[m].memory /= NoObject /\ chat_globals[m].chain /= NoObject

\* The step of b is the creation of mode m's memory object (line 185 or 186).
InitMemoryStep(b, m) == pc[b] = MemoryPc(m) /\ pc'[b] /= pc[b]

\* C36: whatever the interleaving of the first calls of chat.py, one memory
\* object is made for each mode, and the creation of a memory object removes
\* no turn from the mode's memory.
C36_InitializedOnce ==
  /\ [](\A m \in Modes : chat_globals[m].memory <= 1)
  /\ [][\A b \in Browsers : \A m \in Modes :
          InitMemoryStep(b, m) => IsPrefix(memory[m], memory'[m])]_vars

====
